---------------------------- MODULE Spec2Model ----------------------------
(***************************************************************************)
(* Candle aggregation and rollup engine of the price feed service          *)
(* (multi-pool variant, src/unnamed/part_002; single-pool variant,         *)
(* src/index.js).                                                          *)
(*                                                                         *)
(* Time: one model time unit is 1000 ms of the source, so that the widest  *)
(* interval (1M = 2 592 000 000 ms) stays inside TLC's integers.  Every    *)
(* duration of the source is divided by 1000; `now % 60000 < 1000` becomes *)
(* `now % 60 < 1`.                                                          *)
(* null is modelled by the number Null, which is no price and no time.     *)
(***************************************************************************)
EXTENDS Integers, Sequences, FiniteSets, TLC

VARIABLES
    poolsData,   \* Map<normalized pool address, poolData>; NoPool when absent
    file,        \* the document at dataFilePath; NoFile when none exists
    phase,       \* "boot" before init() has loaded the file, then "running";
                 \* "off" where the engine's functions are called directly
    last,        \* history variable: the last operation, its input state and result
    volumeHistory, \* the log of swap volumes, one for all pools
    poolsInitializing, \* Set<normalized pool address> being initialized
    timers,      \* the setInterval timers running, counted per pool address
    clock,       \* where time is a state and not an input: the time at which
                 \* the next price poll is due, within the minute
    poolCalls,   \* the calls of initializePool, per normalized pool address:
                 \* how many were started, and how many are awaiting their
                 \* updatePrice or their setupEventListenersForPool
    lastProcessedBlocks, \* Map<normalized pool address, blockNumber>; 0 when absent
    scans,       \* the runs of queryPastEvents that are awaiting their logs
    blockNumber  \* the head of the chain, as provider.getBlockNumber() returns it

vars == <<poolsData, file, phase, last, volumeHistory,
          poolsInitializing, timers, clock, poolCalls,
          lastProcessedBlocks, scans, blockNumber>>

\* the pools being initialized and the timers
\* the event scan
eventScan == <<lastProcessedBlocks, scans, blockNumber>>

tasks == <<poolsInitializing, timers, clock, poolCalls, eventScan>>

\* the state of the service around the engine
service == <<file, phase, volumeHistory, tasks>>

Null == 0 - 1
NoPool == [absent |-> TRUE]
NoFile == [exists |-> FALSE]

Max(a, b) == IF a >= b THEN a ELSE b
Min(a, b) == IF a <= b THEN a ELSE b

(***************************************************************************)
(* Bounds of the model.                                                    *)
(***************************************************************************)
\* the source keeps 100 candles per interval; the model keeps DatapointLimit
DatapointLimit == 3
\* number of update / repair calls explored from the empty series
MaxUpdates == 4

(***************************************************************************)
(* Configuration of the source.                                            *)
(***************************************************************************)
IntervalKeys == <<"1m", "5m", "15m", "30m", "1h", "6h", "12h", "24h", "1w", "1M">>
IntervalSet == {IntervalKeys[k] : k \in 1..Len(IntervalKeys)}

intervals ==
    [i \in IntervalSet |->
        CASE i = "1m"  -> 1 * 60
          [] i = "5m"  -> 5 * 60
          [] i = "15m" -> 15 * 60
          [] i = "30m" -> 30 * 60
          [] i = "1h"  -> 60 * 60
          [] i = "6h"  -> 6 * 60 * 60
          [] i = "12h" -> 12 * 60 * 60
          [] i = "24h" -> 24 * 60 * 60
          [] i = "1w"  -> 7 * 24 * 60 * 60
          [] i = "1M"  -> 30 * 24 * 60 * 60]

DATAPOINT_LIMITS == [i \in IntervalSet |-> DatapointLimit]

EmptyOhlc == [i \in IntervalSet |-> << >>]

createPoolData ==
    [latestPrice |-> Null,
     history     |-> << >>,
     lastUpdated |-> Null,
     ohlc        |-> EmptyOhlc,
     volume      |-> [h24 |-> 0, d7 |-> 0, d30 |-> 0, total |-> 0]]

(***************************************************************************)
(* Array helpers of JavaScript.                                            *)
(***************************************************************************)
\* Array.prototype.slice(-n), n > 0: the last n elements (all when shorter)
sliceLast(arr, n) ==
    IF Len(arr) <= n THEN arr ELSE SubSeq(arr, Len(arr) - n + 1, Len(arr))

(***************************************************************************)
(* Candle Aggregator: updateOHLCData                                       *)
(***************************************************************************)
\* Math.floor(timestamp / ms) * ms
roundedTimestamp(timestamp, ms) == (timestamp \div ms) * ms

\* mutant: a new candle whenever the sample's bucket differs from the last one
lastCandleComplete_OtherBucket(currentOHLC, timestamp, ms) ==
    \/ Len(currentOHLC) = 0
    \/ currentOHLC[Len(currentOHLC)].timestamp # roundedTimestamp(timestamp, ms)

\* mutant: a sample older than the last candle's start also opens a candle
lastCandleComplete_OrOlder(currentOHLC, timestamp, ms) ==
    \/ Len(currentOHLC) = 0
    \/ timestamp >= currentOHLC[Len(currentOHLC)].timestamp + ms
    \/ timestamp < currentOHLC[Len(currentOHLC)].timestamp

\* "If no candles exist or the last candle is complete, create a new one"
lastCandleComplete(currentOHLC, timestamp, ms) ==
    \/ Len(currentOHLC) = 0
    \/ timestamp >= currentOHLC[Len(currentOHLC)].timestamp + ms

\* mutant: the new candle opens at the sample's price
openPrice_SamplePrice(currentOHLC, price) == price

\* "For continuity: new candle's open should equal previous candle's close"
openPrice(currentOHLC, price) ==
    IF Len(currentOHLC) > 0 THEN currentOHLC[Len(currentOHLC)].close ELSE price

newCandle(roundedTs, open, price) ==
    [timestamp |-> roundedTs, open |-> open,
     high |-> price, low |-> price, close |-> price]

\* mutant: the in-place update forgets the close
updateCurrentCandle_KeepClose(currentCandle, price) ==
    [currentCandle EXCEPT !.high = Max(currentCandle.high, price),
                          !.low  = Min(currentCandle.low, price)]

\* mutant: the in-place update restarts the candle at the sample
updateCurrentCandle_ResetOpen(currentCandle, price) ==
    [currentCandle EXCEPT !.open  = price,
                          !.high  = Max(currentCandle.high, price),
                          !.low   = Min(currentCandle.low, price),
                          !.close = price]

\* "Update the current candle"
updateCurrentCandle(currentCandle, price) ==
    [currentCandle EXCEPT !.high  = Max(currentCandle.high, price),
                          !.low   = Min(currentCandle.low, price),
                          !.close = price]

\* mutant: the limit keeps the oldest candles
limitCandles_KeepHead(currentOHLC, limit) ==
    IF Len(currentOHLC) > limit THEN SubSeq(currentOHLC, 1, limit)
    ELSE currentOHLC

\* "Limit the number of candles using standard limits"
limitCandles(currentOHLC, limit) ==
    IF Len(currentOHLC) > limit THEN sliceLast(currentOHLC, limit)
    ELSE currentOHLC

\* the body of the forEach over the intervals, before the limit is applied
foldSample(currentOHLC, ms, price, timestamp) ==
    IF lastCandleComplete(currentOHLC, timestamp, ms)
    THEN Append(currentOHLC,
                newCandle(roundedTimestamp(timestamp, ms),
                          openPrice(currentOHLC, price), price))
    ELSE [currentOHLC EXCEPT ![Len(currentOHLC)] =
              updateCurrentCandle(currentOHLC[Len(currentOHLC)], price)]

updateOHLCData(poolData, price, timestamp) ==
    [poolData EXCEPT !.ohlc =
        [i \in IntervalSet |->
            limitCandles(foldSample(poolData.ohlc[i], intervals[i], price, timestamp),
                         DATAPOINT_LIMITS[i])]]

(***************************************************************************)
(* Backfiller: backfillHistoricalOHLC                                      *)
(***************************************************************************)
\* mutant: an interval is skipped only when it has more than 2 candles
backfillSkips_MoreThanTwo(candles) == Len(candles) > 2

\* "Skip if we already have sufficient data"
backfillSkips(candles) == Len(candles) >= 2

\* "If no candles exist or the last candle is for a different time period"
backfillNewPeriod(currentOHLC, roundedTs) ==
    \/ Len(currentOHLC) = 0
    \/ currentOHLC[Len(currentOHLC)].timestamp # roundedTs

backfillOpenPrice(currentOHLC, price) ==
    IF Len(currentOHLC) > 0 THEN currentOHLC[Len(currentOHLC)].close ELSE price

\* "Update the current candle"
backfillCurrentCandle(currentCandle, price) ==
    [currentCandle EXCEPT !.high  = Max(currentCandle.high, price),
                          !.low   = Min(currentCandle.low, price),
                          !.close = price]

\* one historyItem folded into the interval's candles
backfillItem(currentOHLC, ms, historyItem) ==
    LET price == historyItem.price
        roundedTs == (historyItem.timestamp \div ms) * ms
    IN IF backfillNewPeriod(currentOHLC, roundedTs)
       THEN Append(currentOHLC,
                   [timestamp |-> roundedTs,
                    open |-> backfillOpenPrice(currentOHLC, price),
                    high |-> price, low |-> price, close |-> price])
       ELSE [currentOHLC EXCEPT ![Len(currentOHLC)] =
                backfillCurrentCandle(currentOHLC[Len(currentOHLC)], price)]

\* poolData.history.forEach, in the stored order, from position k on
RECURSIVE backfillReplay(_, _, _, _)
backfillReplay(currentOHLC, ms, history, k) ==
    IF k > Len(history) THEN currentOHLC
    ELSE backfillReplay(backfillItem(currentOHLC, ms, history[k]), ms, history, k + 1)

backfillHistoricalOHLC(poolData) ==
    IF Len(poolData.history) = 0 THEN poolData
    ELSE [poolData EXCEPT !.ohlc =
            [i \in IntervalSet |->
                IF backfillSkips(poolData.ohlc[i]) THEN poolData.ohlc[i]
                ELSE backfillReplay(<< >>, intervals[i], poolData.history, 1)]]

(***************************************************************************)
(* Continuity Enforcer: validateAndFixOHLCContinuity                       *)
(***************************************************************************)
\* mutant: the repair rewrites the previous candle's close instead
RECURSIVE fixFrom_FixClose(_, _, _)
fixFrom_FixClose(candles, i, fixCount) ==
    IF i > Len(candles) THEN [candles |-> candles, fixCount |-> fixCount]
    ELSE IF candles[i - 1].close # candles[i].open
         THEN fixFrom_FixClose([candles EXCEPT ![i - 1].close = candles[i].open],
                               i + 1, fixCount + 1)
         ELSE fixFrom_FixClose(candles, i + 1, fixCount)

\* mutant: the issues are counted and logged, the opens are left as found
RECURSIVE fixFrom_CountOnly(_, _, _)
fixFrom_CountOnly(candles, i, fixCount) ==
    IF i > Len(candles) THEN [candles |-> candles, fixCount |-> fixCount]
    ELSE IF candles[i - 1].close # candles[i].open
         THEN fixFrom_CountOnly(candles, i + 1, fixCount + 1)
         ELSE fixFrom_CountOnly(candles, i + 1, fixCount)

\* one interval: the for loop from i = 1, carrying the repaired list and count
RECURSIVE fixFrom(_, _, _)
fixFrom(candles, i, fixCount) ==
    IF i > Len(candles) THEN [candles |-> candles, fixCount |-> fixCount]
    ELSE IF candles[i - 1].close # candles[i].open
         THEN fixFrom([candles EXCEPT ![i].open = candles[i - 1].close],
                      i + 1, fixCount + 1)
         ELSE fixFrom(candles, i + 1, fixCount)

fixInterval(candles) == fixFrom(candles, 2, 0)

RECURSIVE sumFixes(_, _)
sumFixes(ohlc, k) ==
    IF k > Len(IntervalKeys) THEN 0
    ELSE fixInterval(ohlc[IntervalKeys[k]]).fixCount + sumFixes(ohlc, k + 1)

\* the repaired poolData and the returned fixCount
validateAndFixOHLCContinuity(poolData) ==
    [poolData |-> [poolData EXCEPT !.ohlc =
                      [i \in IntervalSet |-> fixInterval(poolData.ohlc[i]).candles]],
     fixCount |-> sumFixes(poolData.ohlc, 1)]

\* normalized pool addresses; the engine's functions are exercised on ThePool
PoolIds == {"0xaa", "0xbb"}
ThePool == "0xaa"

\* the strings that may key the registry: the addresses as normalized and as
\* requests and documents may spell them
Addresses == PoolIds \cup {"0xAA", "0xBB"}

\* no setInterval has been called
NoTimers == [p \in Addresses |-> [updatePrice |-> 0, queryPastEvents |-> 0]]

\* lastProcessedBlocks.get(normalizedAddress) || 0, when nothing was set
NoBlocks == [p \in PoolIds |-> 0]

\* no call of initializePool was made
NoCalls ==
    [p \in PoolIds |->
        [started |-> 0, updatePrice |-> 0, setupEventListenersForPool |-> 0]]

(***************************************************************************)
(* Entity Registry: getPoolData                                            *)
(***************************************************************************)
\* mutant: the address is used as it is spelled
toLowerCase_Identity(address) == address

\* String.prototype.toLowerCase, on the addresses of the model
toLowerCase(address) ==
    CASE address = "0xAA" -> "0xaa"
      [] address = "0xBB" -> "0xbb"
      [] OTHER -> address

\* the registry after getPoolData(poolAddress)
getPoolData(pools, poolAddress) ==
    LET normalizedAddress == toLowerCase(poolAddress)
    IN IF pools[normalizedAddress] = NoPool
       THEN [pools EXCEPT ![normalizedAddress] = createPoolData]
       ELSE pools

(***************************************************************************)
(* Retention Pruner: cleanupOldData                                        *)
(***************************************************************************)
\* mutant: only the raw history is pruned
cleanupOldData_HistoryOnly(poolData, now) ==
    LET oneDayAgo == now - (24 * 60 * 60 + 60)
    IN [poolData EXCEPT
          !.history = SelectSeq(@, LAMBDA item : item.timestamp >= oneDayAgo)]

\* mutant: the 1M candles are kept for ten days
cleanupOldData_TenDays(poolData, now) ==
    LET oneDayAgo     == now - (24 * 60 * 60 + 60)
        thirtyDaysAgo == now - (30 * 24 * 60 * 60)
        sevenDaysAgo  == now - (7 * 24 * 60 * 60)
        twoYearsAgo   == now - (2 * 365 * 24 * 60 * 60)
        tenDaysAgo    == now - (10 * 24 * 60 * 60)
    IN [poolData EXCEPT
          !.history = SelectSeq(@, LAMBDA item : item.timestamp >= oneDayAgo),
          !.ohlc["24h"] = SelectSeq(@, LAMBDA candle : candle.timestamp >= thirtyDaysAgo),
          !.ohlc["1h"] = SelectSeq(@, LAMBDA candle : candle.timestamp >= sevenDaysAgo),
          !.ohlc["1w"] = SelectSeq(@, LAMBDA candle : candle.timestamp >= twoYearsAgo),
          !.ohlc["1M"] = SelectSeq(@, LAMBDA candle : candle.timestamp >= tenDaysAgo)]

\* now is the Date.now() the function reads, the time of the tick that calls it
cleanupOldData(poolData, now) ==
    LET oneDayAgo     == now - (24 * 60 * 60 + 60)
        thirtyDaysAgo == now - (30 * 24 * 60 * 60)
        sevenDaysAgo  == now - (7 * 24 * 60 * 60)
        twoYearsAgo   == now - (2 * 365 * 24 * 60 * 60)
        tenYearsAgo   == now - (10 * 365 * 24 * 60 * 60)
    IN [poolData EXCEPT
          !.history = SelectSeq(@, LAMBDA item : item.timestamp >= oneDayAgo),
          !.ohlc["24h"] = SelectSeq(@, LAMBDA candle : candle.timestamp >= thirtyDaysAgo),
          !.ohlc["1h"] = SelectSeq(@, LAMBDA candle : candle.timestamp >= sevenDaysAgo),
          !.ohlc["1w"] = SelectSeq(@, LAMBDA candle : candle.timestamp >= twoYearsAgo),
          !.ohlc["1M"] = SelectSeq(@, LAMBDA candle : candle.timestamp >= tenYearsAgo)]

(***************************************************************************)
(* Snapshot: saveDataToFile and initializeDataFile                         *)
(***************************************************************************)
\* the order in which the pools of the registry are written to the document
PoolOrder == <<"0xaa", "0xbb", "0xAA", "0xBB">>

\* "Validate and fix OHLC continuity for all pools"
validateAllPools(pools) ==
    [p \in Addresses |->
        IF pools[p] = NoPool THEN NoPool
        ELSE validateAndFixOHLCContinuity(pools[p]).poolData]

RECURSIVE sumPoolFixes(_, _)
sumPoolFixes(pools, k) ==
    IF k > Len(PoolOrder) THEN 0
    ELSE (IF pools[PoolOrder[k]] = NoPool THEN 0
          ELSE validateAndFixOHLCContinuity(pools[PoolOrder[k]]).fixCount)
         + sumPoolFixes(pools, k + 1)

\* mutant: the snapshot is taken without the repair pass
saveValidate_Skip(pools) == pools

\* "Validate and fix OHLC continuity before saving"
saveValidate(pools) == validateAllPools(pools)

\* the number NaN, which no price, amount or time of the service is
NaN == 0 - 2

\* what JSON carries of a number or null: itself, and null for NaN
jsonValue(value) == IF value = NaN THEN Null ELSE value

jsonCandle(candle) ==
    [timestamp |-> jsonValue(candle.timestamp), open |-> jsonValue(candle.open),
     high |-> jsonValue(candle.high), low |-> jsonValue(candle.low),
     close |-> jsonValue(candle.close)]

\* mutant: "Don't save volume history for now as it's global" taken for the
\* pool's volume, which is written as that of a new pool
spreadPoolData_WithoutVolume(poolData) ==
    [latestPrice |-> jsonValue(poolData.latestPrice),
     history |-> [k \in 1..Len(poolData.history) |->
                     [price |-> jsonValue(poolData.history[k].price),
                      timestamp |-> jsonValue(poolData.history[k].timestamp)]],
     lastUpdated |-> jsonValue(poolData.lastUpdated),
     ohlc |-> [i \in IntervalSet |->
                  [k \in 1..Len(poolData.ohlc[i]) |->
                      jsonCandle(poolData.ohlc[i][k])]],
     volume |-> createPoolData.volume]

\* { ...poolData } as fs.writeJson writes it and fs.readJson reads it back:
\* every property of the series, property by property
spreadPoolData(poolData) ==
    [latestPrice |-> jsonValue(poolData.latestPrice),
     history |-> [k \in 1..Len(poolData.history) |->
                     [price |-> jsonValue(poolData.history[k].price),
                      timestamp |-> jsonValue(poolData.history[k].timestamp)]],
     lastUpdated |-> jsonValue(poolData.lastUpdated),
     ohlc |-> [i \in IntervalSet |->
                  [k \in 1..Len(poolData.ohlc[i]) |->
                      jsonCandle(poolData.ohlc[i][k])]],
     volume |-> [h24 |-> jsonValue(poolData.volume.h24),
                 d7 |-> jsonValue(poolData.volume.d7),
                 d30 |-> jsonValue(poolData.volume.d30),
                 total |-> jsonValue(poolData.volume.total)]]

\* allPoolsData: one entry per pool of the registry
RECURSIVE allPoolsData(_, _)
allPoolsData(pools, k) ==
    IF k > Len(PoolOrder) THEN << >>
    ELSE (IF pools[PoolOrder[k]] = NoPool THEN << >>
          ELSE <<[poolAddress |-> PoolOrder[k],
                  poolData |-> spreadPoolData(pools[PoolOrder[k]])]>>)
         \o allPoolsData(pools, k + 1)

\* a version 2 document; writer records who wrote it
Document(entries, volumes, writer) ==
    [exists |-> TRUE, hasPools |-> TRUE, pools |-> entries,
     volumeHistory |-> volumes, writer |-> writer]

\* a document of the old format: no pools key; the single-pool service
\* wrote its volume log under the same key volumeHistory
LegacyDocument ==
    [exists |-> TRUE, hasPools |-> FALSE, pools |-> << >>,
     volumeHistory |-> <<[volume |-> 7, timestamp |-> 30]>>,
     writer |-> "external"]

\* a file that fs.readJson cannot parse
UnreadableDocument ==
    [exists |-> TRUE, unreadable |-> TRUE, writer |-> "external"]

\* a pool entry that is not a series: it has no ohlc
MalformedPool == [latestPrice |-> Null]

\* initialData of initializeDataFile
initialData == Document(<< >>, << >>, "init")

\* the registry and the document after saveDataToFile; the repair pass
\* mutates the registry before the document is serialized from it
saveDataToFile(pools, volumes) ==
    LET validated == saveValidate(pools)
    IN [pools |-> validated,
        dataToSave |-> Document(allPoolsData(validated, 1),
                                sliceLast(volumes, 1000), "save"),
        fixCount |-> sumPoolFixes(pools, 1)]

\* "Load all pools data (normalize addresses to lowercase)", entries k..
RECURSIVE loadPools(_, _, _)
loadPools(pools, entries, k) ==
    IF k > Len(entries) THEN pools
    ELSE loadPools([pools EXCEPT ![toLowerCase(entries[k].poolAddress)] =
                        entries[k].poolData],
                   entries, k + 1)

\* mutant: the loaded pools are not repaired
loadValidate_Skip(pools) == pools

\* "Validate and fix OHLC continuity for all pools"
loadValidate(pools) == validateAllPools(pools)

\* fs.readJson throws
readJsonThrows(data) == "unreadable" \in DOMAIN data

\* Object.entries(poolData.ohlc) throws
validateThrows(poolData) == "ohlc" \notin DOMAIN poolData

\* the keys of the Map in the order of their insertion by the entries k..
RECURSIVE mapOrder(_, _, _)
mapOrder(entries, k, order) ==
    IF k > Len(entries) THEN order
    ELSE LET normalizedAddress == toLowerCase(entries[k].poolAddress)
         IN mapOrder(entries, k + 1,
                     IF \E i \in 1..Len(order) : order[i] = normalizedAddress
                     THEN order
                     ELSE Append(order, normalizedAddress))

\* the validation loop over the Map from its k-th key on, up to the pool
\* on which validateAndFixOHLCContinuity throws
RECURSIVE validateUntilThrow(_, _, _)
validateUntilThrow(pools, order, k) ==
    IF k > Len(order) THEN pools
    ELSE IF validateThrows(pools[order[k]]) THEN pools
    ELSE validateUntilThrow(
             [pools EXCEPT ![order[k]] =
                  validateAndFixOHLCContinuity(pools[order[k]]).poolData],
             order, k + 1)

\* mutant: a document is read as one of the new format whatever its keys
isNewFormat_Always(data) == TRUE

\* "if (data.pools)"
isNewFormat(data) == data.hasPools

\* the registry, the volume log and the file after initializeDataFile;
\* caught tells that the catch block has run
initializeDataFile(pools, volumes, data) ==
    IF data.exists
    THEN IF readJsonThrows(data)
         THEN [pools |-> pools, volumeHistory |-> volumes,
               file |-> data, fixCount |-> 0, caught |-> TRUE]
         ELSE IF isNewFormat(data)
         THEN IF \E k \in 1..Len(data.pools) :
                     validateThrows(loadPools(pools, data.pools, 1)
                                        [toLowerCase(data.pools[k].poolAddress)])
              THEN [pools |-> validateUntilThrow(loadPools(pools, data.pools, 1),
                                                 mapOrder(data.pools, 1, << >>), 1),
                    volumeHistory |-> volumes \o data.volumeHistory,
                    file |-> data, fixCount |-> 0, caught |-> TRUE]
              ELSE [pools |-> loadValidate(loadPools(pools, data.pools, 1)),
                    volumeHistory |-> volumes \o data.volumeHistory,
                    file |-> data,
                    fixCount |-> sumPoolFixes(loadPools(pools, data.pools, 1), 1),
                    caught |-> FALSE]
         ELSE [pools |-> pools, volumeHistory |-> volumes,
               file |-> initialData, fixCount |-> 0, caught |-> FALSE]
    ELSE [pools |-> pools, volumeHistory |-> volumes,
          file |-> initialData, fixCount |-> 0, caught |-> FALSE]

(***************************************************************************)
(* updatePrice, for a price the producer returned                          *)
(***************************************************************************)
\* mutant: the sample is recorded in latestPrice and history and not folded
foldPrice_RecordOnly(poolData, price, now) ==
    [poolData EXCEPT !.latestPrice = price,
                     !.lastUpdated = now,
                     !.history = Append(@, [price |-> price, timestamp |-> now])]

\* the pool's series after the synchronous part of updatePrice
foldPrice(poolData, price, now) ==
    cleanupOldData(
        updateOHLCData([poolData EXCEPT !.latestPrice = price,
                                        !.lastUpdated = now,
                                        !.history = Append(@, [price |-> price,
                                                               timestamp |-> now])],
                       price, now),
        now)

\* "Save to file (every minute to avoid excessive disk writes)"
saveDue(now) == now % 60 < 1

(***************************************************************************)
(* Interval Deriver: generateLongerInterval, generateIntervalsFromExisting *)
(***************************************************************************)
\* result.find(c => c.timestamp === targetTimestamp): the index of the first
\* match from k on, 0 if there is none
RECURSIVE findTarget(_, _, _)
findTarget(result, targetTimestamp, k) ==
    IF k > Len(result) THEN 0
    ELSE IF result[k].timestamp = targetTimestamp THEN k
    ELSE findTarget(result, targetTimestamp, k + 1)

\* mutant: the period keeps the close of its first candle
mergeCandle_FirstClose(targetCandle, candle) ==
    [timestamp |-> targetCandle.timestamp,
     open |-> targetCandle.open,
     high |-> Max(targetCandle.high, candle.high),
     low |-> Min(targetCandle.low, candle.low),
     close |-> targetCandle.close]

\* "Update existing candle"
mergeCandle(targetCandle, candle) ==
    [timestamp |-> targetCandle.timestamp,
     open |-> targetCandle.open,
     high |-> Max(targetCandle.high, candle.high),
     low |-> Min(targetCandle.low, candle.low),
     close |-> candle.close]

\* result after the forEach callback ran on candle
deriveCandle(result, candle, targetIntervalMs) ==
    LET targetTimestamp == roundedTimestamp(candle.timestamp, targetIntervalMs)
        k == findTarget(result, targetTimestamp, 1)
    IN IF k = 0
       THEN Append(result, [timestamp |-> targetTimestamp,
                            open |-> candle.open,
                            high |-> candle.high,
                            low |-> candle.low,
                            close |-> candle.close])
       ELSE [result EXCEPT ![k] = mergeCandle(result[k], candle)]

\* sourceCandles.forEach, from candle k on
RECURSIVE deriveFrom(_, _, _, _)
deriveFrom(result, sourceCandles, targetIntervalMs, k) ==
    IF k > Len(sourceCandles) THEN result
    ELSE deriveFrom(deriveCandle(result, sourceCandles[k], targetIntervalMs),
                    sourceCandles, targetIntervalMs, k + 1)

\* insertion of a candle into a list sorted by timestamp, after its equals
RECURSIVE insertCandle(_, _)
insertCandle(sorted, candle) ==
    IF Len(sorted) = 0 THEN <<candle>>
    ELSE IF sorted[Len(sorted)].timestamp <= candle.timestamp
         THEN Append(sorted, candle)
         ELSE Append(insertCandle(SubSeq(sorted, 1, Len(sorted) - 1), candle),
                     sorted[Len(sorted)])

\* mutant: the result is left in the order of its creation
sortByTimestamp_Unsorted(sorted, arr, k) == arr

\* result.sort((a, b) => a.timestamp - b.timestamp), a stable sort
RECURSIVE sortByTimestamp(_, _, _)
sortByTimestamp(sorted, arr, k) ==
    IF k > Len(arr) THEN sorted
    ELSE sortByTimestamp(insertCandle(sorted, arr[k]), arr, k + 1)

generateLongerInterval(sourceCandles, targetIntervalMs) ==
    IF Len(sourceCandles) = 0 THEN << >>
    ELSE sortByTimestamp(<< >>,
                         deriveFrom(<< >>, sourceCandles, targetIntervalMs, 1), 1)

\* 6h and 12h from 1h; the else branch belongs to the second test of 1h
generateIntervalsFromExisting(poolData) ==
    IF Len(poolData.ohlc["1h"]) > 0
    THEN [poolData EXCEPT
            !.ohlc["6h"] = generateLongerInterval(poolData.ohlc["1h"], 6 * 60 * 60),
            !.ohlc["12h"] = generateLongerInterval(poolData.ohlc["1h"], 12 * 60 * 60)]
    ELSE IF Len(poolData.ohlc["5m"]) > 0
         THEN LET h1 == generateLongerInterval(poolData.ohlc["5m"], 60 * 60)
              IN [poolData EXCEPT
                    !.ohlc["1h"] = h1,
                    !.ohlc["6h"] = generateLongerInterval(h1, 6 * 60 * 60),
                    !.ohlc["12h"] = generateLongerInterval(h1, 12 * 60 * 60)]
         ELSE poolData

(***************************************************************************)
(* Volume Window Tracker: updateVolume                                     *)
(***************************************************************************)
\* volumeHistory.filter(v => v.timestamp >= cutoff).reduce(sum), from entry k
RECURSIVE sumSince(_, _, _)
sumSince(volumes, cutoff, k) ==
    IF k > Len(volumes) THEN 0
    ELSE (IF volumes[k].timestamp >= cutoff THEN volumes[k].volume ELSE 0)
         + sumSince(volumes, cutoff, k + 1)

\* "Clean up old volume history (keep 30 days)": shift while the head is old
RECURSIVE evictHead(_, _)
evictHead(volumes, cutoffTime) ==
    IF Len(volumes) > 0 /\ volumes[1].timestamp < cutoffTime
    THEN evictHead(Tail(volumes), cutoffTime)
    ELSE volumes

\* the pool's series and the log after updateVolume(poolData, volumeInUSD),
\* now being the Date.now() it reads
updateVolume(poolData, volumes, volumeInUSD, now) ==
    LET pushed   == Append(volumes, [volume |-> volumeInUSD, timestamp |-> now])
        dayAgo   == now - 24 * 60 * 60
        weekAgo  == now - 7 * 24 * 60 * 60
        monthAgo == now - 30 * 24 * 60 * 60
    IN [poolData |-> [poolData EXCEPT
                        !.volume = [h24 |-> sumSince(pushed, dayAgo, 1),
                                    d7 |-> sumSince(pushed, weekAgo, 1),
                                    d30 |-> sumSince(pushed, monthAgo, 1),
                                    total |-> poolData.volume.total + volumeInUSD]],
        volumeHistory |-> evictHead(pushed, monthAgo)]

(***************************************************************************)
(* Swap listener of setupEventListenersForPool                             *)
(***************************************************************************)
\* the pool's series and the log after the Swap listener ran for an event
\* carrying price and volumeUSD
swapListener(poolData, volumes, price, volumeUSD, now) ==
    LET r == updateVolume(poolData, volumes, volumeUSD, now)
    IN [poolData |-> updateOHLCData(
                         [r.poolData EXCEPT !.latestPrice = price,
                                            !.lastUpdated = now,
                                            !.history = Append(@, [price |-> price,
                                                                   timestamp |-> now])],
                         price, now),
        volumeHistory |-> r.volumeHistory]

(***************************************************************************)
(* Query surface: parsePoolAddress and the price endpoints                 *)
(***************************************************************************)
\* /^0x[a-fA-F0-9]{40}$/ on the strings of the model: the addresses, in
\* either spelling, are the valid ones
isValidAddress(address) == address \in Addresses

\* the values of the pool parameter: absent (""), malformed, or an address
PoolParams == Addresses \cup {"", "0xZZ"}

\* mutant: the address is registered before its format is looked at
rejectInvalid_RegisterFirst(pools, initializing, poolAddress) ==
    [pools |-> pools,
     poolsInitializing |-> initializing \cup {poolAddress},
     initializePool |-> TRUE, next |-> FALSE,
     response |-> [status |-> 400, error |-> "Invalid pool address format"]]

\* "Validate the address format": the 400 of a malformed pool parameter
rejectInvalid(pools, initializing, poolAddress) ==
    [pools |-> pools, poolsInitializing |-> initializing,
     initializePool |-> FALSE, next |-> FALSE,
     response |-> [status |-> 400, error |-> "Invalid pool address format"]]

\* mutant: only the pools being initialized are looked at
needsInitialization_RegistryIgnored(pools, initializing, normalizedAddress) ==
    normalizedAddress \notin initializing

\* "Check if this is a new pool that needs initialization"
needsInitialization(pools, initializing, normalizedAddress) ==
    /\ pools[normalizedAddress] = NoPool
    /\ normalizedAddress \notin initializing

\* parsePoolAddress: the registry and the set of pools being initialized
\* after it, whether it has called initializePool, and the response when it
\* does not call next()
parsePoolAddress(pools, initializing, poolAddress) ==
    IF poolAddress = ""
    THEN [pools |-> pools, poolsInitializing |-> initializing,
          initializePool |-> FALSE, next |-> FALSE,
          response |-> [status |-> 400,
                        error |-> "Missing required parameter: pool"]]
    ELSE IF ~isValidAddress(poolAddress)
    THEN rejectInvalid(pools, initializing, poolAddress)
    ELSE LET normalizedAddress == toLowerCase(poolAddress)
             isNew == needsInitialization(pools, initializing, normalizedAddress)
         IN [pools |-> IF isNew
                       THEN [pools EXCEPT ![normalizedAddress] = createPoolData]
                       ELSE pools,
             poolsInitializing |-> IF isNew
                                   THEN initializing \cup {normalizedAddress}
                                   ELSE initializing,
             initializePool |-> isNew, next |-> TRUE,
             response |-> [status |-> 200]]

\* GET /api/price and GET /api/price/latest
latestEndpoint(pools, initializing, poolAddress) ==
    LET parsed == parsePoolAddress(pools, initializing, poolAddress)
        registry == IF parsed.next THEN getPoolData(parsed.pools, poolAddress)
                    ELSE parsed.pools
        poolData == registry[toLowerCase(poolAddress)]
    IN IF parsed.next
       THEN [pools |-> registry,
             poolsInitializing |-> parsed.poolsInitializing,
             response |-> [status |-> 200,
                           pool |-> poolAddress,
                           latest |-> poolData.latestPrice,
                           lastUpdated |-> poolData.lastUpdated]]
       ELSE [pools |-> parsed.pools,
             poolsInitializing |-> parsed.poolsInitializing,
             response |-> parsed.response]

(***************************************************************************)
(* Query surface: the candle endpoints.  A timestamp parameter of the      *)
(* query string is absent, a decimal number of the model's time unit, or a *)
(* text parseInt turns into NaN; timestamps of requests are not negative,  *)
(* so Null never stands for a number a request gave.                       *)
(***************************************************************************)
NoInterval == "null"

mapInterval(interval) ==
    CASE interval \in {"1", "1m"} -> "1m"
      [] interval \in {"5", "5m"} -> "5m"
      [] interval \in {"15", "15m"} -> "15m"
      [] interval \in {"30", "30m"} -> "30m"
      [] interval \in {"60", "1h", "1hour"} -> "1h"
      [] interval \in {"360", "6", "6h"} -> "6h"
      [] interval \in {"720", "12", "12h"} -> "12h"
      [] interval \in {"1440", "24", "24h"} -> "24h"
      [] interval \in {"1w", "week"} -> "1w"
      [] interval \in {"1M", "month"} -> "1M"
      [] OTHER -> NoInterval

AbsentParam == [kind |-> "absent", value |-> 0]
NaNParam == [kind |-> "nan", value |-> 0]
IntParam(n) == [kind |-> "int", value |-> n]

\* "Parse timestamps": null when the parameter is absent, else parseInt
parseTimestamp(param) == IF param.kind = "int" THEN param.value ELSE Null

\* the truth value JavaScript gives a timestamp that is null or a number
Truthy(t) == t # Null /\ t # 0

filterOHLCByTimeRange(ohlcData, fromTimestamp, toTimestamp) ==
    IF Len(ohlcData) = 0 THEN << >>
    ELSE SelectSeq(ohlcData,
                   LAMBDA candle :
                       /\ (~Truthy(fromTimestamp) \/ candle.timestamp >= fromTimestamp)
                       /\ (~Truthy(toTimestamp) \/ candle.timestamp <= toTimestamp))

limitDatapoints(data, intervalKey) ==
    IF Len(data) = 0 THEN data
    ELSE IF Len(data) <= DATAPOINT_LIMITS[intervalKey] THEN data
    ELSE sliceLast(data, DATAPOINT_LIMITS[intervalKey])

ErrorResponse(status, error) == [status |-> status, error |-> error]

InvalidFrom == ErrorResponse(400, "Invalid from_timestamp parameter")
InvalidTo == ErrorResponse(400, "Invalid to_timestamp parameter")
InvalidRange == ErrorResponse(400, "from_timestamp cannot be greater than to_timestamp")
InvalidInterval == ErrorResponse(400, "Invalid interval parameter")
MissingInterval == ErrorResponse(400, "Missing required parameter: interval")

CandleResponse(poolData, intervalKey, fromTimestamp, toTimestamp, limitedData) ==
    [status |-> 200,
     interval |-> intervalKey,
     from_timestamp |-> fromTimestamp,
     to_timestamp |-> toTimestamp,
     count |-> Len(limitedData),
     ohlc |-> limitedData,
     lastUpdated |-> poolData.lastUpdated]

\* GET /api/price/query and GET /api/price/ohlc; interval "" is a request
\* without the parameter
queryEndpoint(poolData, interval, from_timestamp, to_timestamp) ==
    LET intervalKey == mapInterval(interval)
        fromTimestamp == parseTimestamp(from_timestamp)
        toTimestamp == parseTimestamp(to_timestamp)
    IN IF interval = "" THEN MissingInterval
       ELSE IF intervalKey = NoInterval THEN InvalidInterval
       ELSE IF from_timestamp.kind = "nan" THEN InvalidFrom
       ELSE IF to_timestamp.kind = "nan" THEN InvalidTo
       ELSE IF /\ Truthy(fromTimestamp)
               /\ Truthy(toTimestamp)
               /\ fromTimestamp > toTimestamp
            THEN InvalidRange
       ELSE CandleResponse(poolData, intervalKey, fromTimestamp, toTimestamp,
                limitDatapoints(
                    filterOHLCByTimeRange(poolData.ohlc[intervalKey],
                                          fromTimestamp, toTimestamp),
                    intervalKey))

\* "Filter data by timestamp range if timestamps are provided"
filterIfProvided(ohlcData, fromTimestamp, toTimestamp) ==
    IF Truthy(fromTimestamp) \/ Truthy(toTimestamp)
    THEN filterOHLCByTimeRange(ohlcData, fromTimestamp, toTimestamp)
    ELSE ohlcData

\* GET /api/price/ohlc/:interval
ohlcIntervalEndpoint(poolData, interval, from_timestamp, to_timestamp) ==
    LET intervalKey == mapInterval(interval)
        fromTimestamp == parseTimestamp(from_timestamp)
        toTimestamp == parseTimestamp(to_timestamp)
        limitedData == limitDatapoints(
                           filterIfProvided(poolData.ohlc[intervalKey],
                                            fromTimestamp, toTimestamp),
                           intervalKey)
    IN IF intervalKey = NoInterval THEN InvalidInterval
       ELSE IF from_timestamp.kind = "nan" THEN InvalidFrom
       ELSE IF to_timestamp.kind = "nan" THEN InvalidTo
       ELSE IF Len(limitedData) > 0
            THEN CandleResponse(poolData, intervalKey, fromTimestamp,
                                toTimestamp, limitedData)
       ELSE [status |-> 404,
             error |-> "No data available for the specified interval and time range",
             interval |-> intervalKey,
             from_timestamp |-> fromTimestamp,
             to_timestamp |-> toTimestamp]

\* minutes of the legacy endpoint; parseInt of "5m", "15m" and "30m" is the
\* number the key starts with
legacyMinutes(intervalKey) ==
    CASE intervalKey = "1m" -> 1
      [] intervalKey = "24h" -> 1440
      [] intervalKey = "1h" -> 60
      [] intervalKey = "6h" -> 360
      [] intervalKey = "12h" -> 720
      [] intervalKey = "1w" -> 10080
      [] intervalKey = "1M" -> 43200
      [] intervalKey = "5m" -> 5
      [] intervalKey = "15m" -> 15
      [] intervalKey = "30m" -> 30

\* getIntervalPrices, now being the Date.now() it reads
getIntervalPrices(poolData, minutes, intervalKey, now) ==
    LET cutoffTime == now - minutes * 60
        limit == DATAPOINT_LIMITS[intervalKey]
        inWindow == SelectSeq(poolData.history,
                              LAMBDA item : item.timestamp >= cutoffTime)
        filteredData == IF Len(inWindow) = 0 /\ minutes >= 10080
                        THEN poolData.history
                        ELSE inWindow
        step == Len(filteredData) \div limit
    IN IF Len(filteredData) > limit
       THEN [i \in 1..(limit - 1) |-> filteredData[(i - 1) * step + 1]]
            \o <<filteredData[Len(filteredData)]>>
       ELSE filteredData

\* sum, least and greatest price of the data points, as the legacy endpoint
\* computes them: min starts at the first price, max and the sum at 0
RECURSIVE legacyStats(_, _, _)
legacyStats(dataPoints, k, acc) ==
    IF k > Len(dataPoints) THEN acc
    ELSE legacyStats(dataPoints, k + 1,
                     [sum |-> acc.sum + dataPoints[k].price,
                      min |-> Min(acc.min, dataPoints[k].price),
                      max |-> Max(acc.max, dataPoints[k].price)])

\* mutant: the candles are never used
ohlcAvailable_Never(ohlcData) == FALSE

\* "Use OHLC data if available, otherwise fall back to the old method"
ohlcAvailable(ohlcData) == Len(ohlcData) > 0

\* GET /api/price/:interval; avg is sum / count
priceIntervalEndpoint(poolData, interval, from_timestamp, to_timestamp, now) ==
    LET intervalKey == mapInterval(interval)
        fromTimestamp == parseTimestamp(from_timestamp)
        toTimestamp == parseTimestamp(to_timestamp)
        intervalData == getIntervalPrices(poolData, legacyMinutes(intervalKey),
                                          intervalKey, now)
        filteredData ==
            IF Truthy(fromTimestamp) \/ Truthy(toTimestamp)
            THEN SelectSeq(intervalData,
                           LAMBDA item :
                               /\ (~Truthy(fromTimestamp) \/ item.timestamp >= fromTimestamp)
                               /\ (~Truthy(toTimestamp) \/ item.timestamp <= toTimestamp))
            ELSE intervalData
        stats == legacyStats(filteredData, 1,
                             [sum |-> 0,
                              min |-> IF Len(filteredData) > 0
                                      THEN filteredData[1].price ELSE 0,
                              max |-> 0])
    IN IF intervalKey = NoInterval
       THEN ErrorResponse(400, "Invalid interval. Use 1m, 5m, 15m, 30m, 1h, 6h, 12h, 24h, 1w, or 1M")
       ELSE IF from_timestamp.kind = "nan" THEN InvalidFrom
       ELSE IF to_timestamp.kind = "nan" THEN InvalidTo
       ELSE IF ohlcAvailable(poolData.ohlc[intervalKey])
            THEN CandleResponse(poolData, intervalKey, fromTimestamp, toTimestamp,
                     limitDatapoints(
                         filterIfProvided(poolData.ohlc[intervalKey],
                                          fromTimestamp, toTimestamp),
                         intervalKey))
       ELSE [status |-> 200,
             interval |-> intervalKey,
             from_timestamp |-> fromTimestamp,
             to_timestamp |-> toTimestamp,
             dataPoints |-> filteredData,
             stats |-> [count |-> Len(filteredData), sum |-> stats.sum,
                        min |-> stats.min, max |-> stats.max],
             lastUpdated |-> poolData.lastUpdated]

(***************************************************************************)
(* GET /api/stats                                                          *)
(***************************************************************************)
\* Object.keys(intervalMap)
statsIntervals ==
    {"1m", "5m", "15m", "30m", "1h", "6h", "12h", "24h", "7d", "14d", "30d"}

\* intervalMap[interval].ms
statsMs(interval) ==
    CASE interval = "1m" -> 60
      [] interval = "5m" -> 5 * 60
      [] interval = "15m" -> 15 * 60
      [] interval = "30m" -> 30 * 60
      [] interval = "1h" -> 60 * 60
      [] interval = "6h" -> 6 * 60 * 60
      [] interval = "12h" -> 12 * 60 * 60
      [] interval = "24h" -> 24 * 60 * 60
      [] interval = "7d" -> 7 * 24 * 60 * 60
      [] interval = "14d" -> 14 * 24 * 60 * 60
      [] interval = "30d" -> 30 * 24 * 60 * 60

\* intervalMap[interval].ohlcKey
statsOhlcKey(interval) ==
    CASE interval = "7d" -> "1w"
      [] interval = "14d" -> NoInterval
      [] interval = "30d" -> "1M"
      [] OTHER -> interval

Abs(n) == IF n < 0 THEN 0 - n ELSE n

NoClosest == [found |-> FALSE]

\* the loop over ohlcData from candle k on: the open of the first candle
\* whose window holds cutoffTime, and the closest candle seen before it
RECURSIVE statsScanCandles(_, _, _, _, _)
statsScanCandles(ohlcData, cutoffTime, ms, k, closest) ==
    IF k > Len(ohlcData)
    THEN [startPrice |-> Null, closest |-> closest]
    ELSE IF /\ cutoffTime >= ohlcData[k].timestamp
            /\ cutoffTime < ohlcData[k].timestamp + ms
         THEN [startPrice |-> ohlcData[k].open, closest |-> closest]
         ELSE LET timeDiff == Abs(ohlcData[k].timestamp - cutoffTime)
              IN statsScanCandles(ohlcData, cutoffTime, ms, k + 1,
                     IF ~closest.found \/ timeDiff < closest.timeDiff
                     THEN [found |-> TRUE, timeDiff |-> timeDiff,
                           price |-> ohlcData[k].close]
                     ELSE closest)

\* the loop over poolData.history from item k on: the closest sample
RECURSIVE statsScanHistory(_, _, _, _)
statsScanHistory(history, cutoffTime, k, closest) ==
    IF k > Len(history) THEN closest
    ELSE LET timeDiff == Abs(history[k].timestamp - cutoffTime)
         IN statsScanHistory(history, cutoffTime, k + 1,
                IF ~closest.found \/ timeDiff < closest.timeDiff
                THEN [found |-> TRUE, timeDiff |-> timeDiff,
                      price |-> history[k].price]
                ELSE closest)

\* !price of a price that is null or a number
NoPrice(price) == price = Null \/ price = 0

\* startPrice: from the candles of the interval, else from the raw history
statsStartPrice(poolData, interval, cutoffTime) ==
    LET ms == statsMs(interval)
        scan == IF statsOhlcKey(interval) # NoInterval
                THEN statsScanCandles(poolData.ohlc[statsOhlcKey(interval)],
                                      cutoffTime, ms, 1, NoClosest)
                ELSE [startPrice |-> Null, closest |-> NoClosest]
        fromCandles == IF /\ NoPrice(scan.startPrice)
                          /\ scan.closest.found
                          /\ scan.closest.timeDiff <= ms
                       THEN scan.closest.price
                       ELSE scan.startPrice
        sample == statsScanHistory(poolData.history, cutoffTime, 1, NoClosest)
    IN IF NoPrice(fromCandles) /\ Len(poolData.history) > 0
       THEN IF sample.timeDiff * 10 <= ms THEN sample.price ELSE fromCandles
       ELSE fromCandles

\* mutant: a pool without a price is looked up in its history all the same
pricePending_Never(currentPrice) == FALSE

\* "if (!currentPrice)": no current price is available
pricePending(currentPrice) == NoPrice(currentPrice)

\* the handler of GET /api/stats, after parsePoolAddress has called next().
\* percentageChange and the estimated volume of the shorter intervals are
\* floating-point quotients of the fields returned here.
getStats(pools, initializing, poolAddress, interval, now) ==
    LET poolData == getPoolData(pools, poolAddress)[toLowerCase(poolAddress)]
        currentPrice == poolData.latestPrice
        isInitializing == toLowerCase(poolAddress) \in initializing
        startPrice == statsStartPrice(poolData, interval, now - statsMs(interval))
    IN IF interval = "" THEN MissingInterval
       ELSE IF interval \notin statsIntervals THEN InvalidInterval
       ELSE IF pricePending(currentPrice)
       THEN [status |-> 503, error |-> "Current price not available",
             pool |-> poolAddress,
             state |-> IF isInitializing THEN "initializing" ELSE "no_data"]
       ELSE IF NoPrice(startPrice)
       THEN [status |-> 404, error |-> "No historical data available",
             interval |-> interval, currentPrice |-> currentPrice]
       ELSE [status |-> 200, interval |-> interval,
             currentPrice |-> currentPrice, startPrice |-> startPrice,
             priceChange |-> currentPrice - startPrice,
             volume |-> poolData.volume, lastUpdated |-> poolData.lastUpdated]

\* GET /api/stats: parsePoolAddress, then the handler
statsEndpoint(pools, initializing, poolAddress, interval, now) ==
    LET parsed == parsePoolAddress(pools, initializing, poolAddress)
    IN IF parsed.next
       THEN [pools |-> getPoolData(parsed.pools, poolAddress),
             poolsInitializing |-> parsed.poolsInitializing,
             initializePool |-> parsed.initializePool,
             response |-> getStats(parsed.pools, parsed.poolsInitializing,
                                   poolAddress, interval, now)]
       ELSE [pools |-> parsed.pools,
             poolsInitializing |-> parsed.poolsInitializing,
             initializePool |-> parsed.initializePool,
             response |-> parsed.response]

(***************************************************************************)
(* updatePrice and initializePool                                          *)
(***************************************************************************)
\* mutant: whatever fetchLatestPrice returned is taken for a price
priceFetched_Always(price) == TRUE

\* "if (price !== null)"
priceFetched(price) == price # Null

\* updatePrice(poolAddress) up to its call of saveDataToFile, for the value
\* price that fetchLatestPrice returned (Null when the fetch failed)
updatePrice(pools, poolAddress, price, now) ==
    LET registry == getPoolData(pools, poolAddress)
        normalizedAddress == toLowerCase(poolAddress)
    IN IF priceFetched(price)
       THEN [pools |-> [registry EXCEPT
                           ![normalizedAddress] = foldPrice(@, price, now)],
             save |-> saveDue(now)]
       ELSE [pools |-> registry, save |-> FALSE]

\* mutant: no timer is set
setInterval_NotSet(running, poolAddress, callback) == running

\* setInterval, for one of the two callbacks of a pool
setInterval(running, poolAddress, callback) ==
    [running EXCEPT ![toLowerCase(poolAddress)][callback] = @ + 1]

(***************************************************************************)
(* initializePool: its calls                                               *)
(***************************************************************************)
\* initializePool(poolAddress) is called: it runs to its first await, that
\* of updatePrice
initializePool(calls, poolAddress) ==
    [calls EXCEPT ![toLowerCase(poolAddress)].started = @ + 1,
                  ![toLowerCase(poolAddress)].updatePrice = @ + 1]

\* the first updatePrice of a call has returned: the call goes on to
\* setupEventListenersForPool and awaits it
awaitSetup(calls, poolAddress) ==
    [calls EXCEPT ![toLowerCase(poolAddress)].updatePrice = @ - 1,
                  ![toLowerCase(poolAddress)].setupEventListenersForPool = @ + 1]

\* setupEventListenersForPool has returned: the call runs to its end
endCall(calls, poolAddress) ==
    [calls EXCEPT ![toLowerCase(poolAddress)].setupEventListenersForPool = @ - 1]

\* the calls of initializePool that have not returned
callsInFlight(calls) ==
    {p \in PoolIds : calls[p].updatePrice + calls[p].setupEventListenersForPool > 0}

(***************************************************************************)
(* Event scan: queryPastEvents                                             *)
(***************************************************************************)
\* "Start from 100 blocks ago", in blocks of the model
ScanBack == 2

\* the swap events of the pool on the chain: one in every block from the
\* first on, each of the same amount
SwapAmount == 5

swapBlocks(fromBlock, toBlock) ==
    {b \in fromBlock..toBlock : b >= 1}

\* queryPastEvents up to its first getLogs: the range it is going to query,
\* or none when it returns at "Don't query if no new blocks"
scanRange(processed, poolAddress, currentBlock) ==
    LET normalizedAddress == toLowerCase(poolAddress)
        stored == processed[normalizedAddress]
        lastProcessedBlock == IF stored = 0 THEN currentBlock - ScanBack
                              ELSE stored
    IN [query |-> ~(currentBlock <= lastProcessedBlock),
        poolAddress |-> poolAddress,
        lastProcessedBlock |-> lastProcessedBlock,
        currentBlock |-> currentBlock]

\* "Process all found events": updateVolume once per log, n logs
RECURSIVE processEvents(_, _, _, _)
processEvents(poolData, volumes, n, now) ==
    IF n = 0 THEN [poolData |-> poolData, volumeHistory |-> volumes]
    ELSE LET r == updateVolume(poolData, volumes, SwapAmount, now)
         IN processEvents(r.poolData, r.volumeHistory, n - 1, now)

\* mutant: the run stores the block it started from
storeBlock_Start(processed, run) ==
    [processed EXCEPT ![toLowerCase(run.poolAddress)] = run.lastProcessedBlock]

\* "Update last processed block for this pool"
storeBlock(processed, run) ==
    [processed EXCEPT ![toLowerCase(run.poolAddress)] = run.currentBlock]

(***************************************************************************)
(* State predicates on candle lists.                                       *)
(***************************************************************************)
Continuous(candles) ==
    \A i \in 2..Len(candles) : candles[i].open = candles[i - 1].close

StrictlyIncreasing(candles) ==
    \A i \in 2..Len(candles) : candles[i].timestamp > candles[i - 1].timestamp

(***************************************************************************)
(* SpecAgg: one PriceSeries, created empty, driven by update and repair.   *)
(***************************************************************************)
\* a registry holding the one series
Only(poolData) == [p \in Addresses |-> IF p = ThePool THEN poolData ELSE NoPool]

Prices == {10, 12}
\* sample times: in order, duplicated and out of order; the last crosses 1M
SampleTimes == {0, 30, 60, 120, 300, 2592000}

Op(name, pre, ret, price, ts) ==
    [op |-> name, pre |-> pre, ret |-> ret, price |-> price, ts |-> ts, n |-> 0]

InitAgg ==
    /\ poolsData = Only(createPoolData)
    /\ file = NoFile
    /\ phase = "off"
    /\ poolsInitializing = {}
    /\ timers = NoTimers
    /\ clock = 0
    /\ poolCalls = NoCalls
    /\ lastProcessedBlocks = NoBlocks
    /\ scans = << >>
    /\ blockNumber = 0
    /\ volumeHistory = << >>
    /\ last = Op("init", EmptyOhlc, 0, Null, Null)

\* update(series, price, timestamp): one call of updateOHLCData
Update(maxCalls) ==
    \E price \in Prices, timestamp \in SampleTimes :
        /\ last.n < maxCalls
        /\ poolsData' = [poolsData EXCEPT ![ThePool] =
                            updateOHLCData(poolsData[ThePool], price, timestamp)]
        /\ last' = [Op("update", poolsData[ThePool].ohlc, 0, price, timestamp)
                        EXCEPT !.n = last.n + 1]
        /\ UNCHANGED service

AggUpdate == Update(MaxUpdates)

AggRepair ==
    /\ last.n < MaxUpdates
    /\ last.op = "update"
    /\ LET r == validateAndFixOHLCContinuity(poolsData[ThePool])
       IN /\ poolsData' = [poolsData EXCEPT ![ThePool] = r.poolData]
          /\ last' = [Op("repair", poolsData[ThePool].ohlc, r.fixCount, Null, Null)
                          EXCEPT !.n = last.n + 1]
    /\ UNCHANGED service

NextAgg == AggUpdate \/ AggRepair

SpecAgg == InitAgg /\ [][NextAgg]_vars

(***************************************************************************)
(* C1.  Starting from an empty PriceSeries, after any finite sequence of   *)
(* update calls followed by one validateAndRepair pass, every interval's   *)
(* candle list satisfies candle[i].open == candle[i-1].close for i > 0.    *)
(* Checked in the stronger form that holds of the code: continuity holds   *)
(* in every state reached by update calls, so in particular in the state   *)
(* left by the repair pass that follows them.                              *)
(***************************************************************************)
C1_ContinuityFromEmpty ==
    last.op \in {"update", "repair"} =>
        \A i \in IntervalSet : Continuous(poolsData[ThePool].ohlc[i])

\* a repair pass has run after updates that opened a second 1m candle at
\* another price than the first candle's close
C1_Witness ==
    /\ last.op = "repair"
    /\ Len(poolsData[ThePool].ohlc["1m"]) >= 2
    /\ poolsData[ThePool].ohlc["1m"][2].close # poolsData[ThePool].ohlc["1m"][1].close

(***************************************************************************)
(* C4.  Starting from an empty PriceSeries, after any sequence of update   *)
(* calls, duplicate and out-of-order timestamps included, every interval's *)
(* candle timestamps are strictly increasing, with at most one candle per  *)
(* interval-width bucket (every timestamp is the start of its bucket).     *)
(***************************************************************************)
C4_MonotonicBuckets ==
    \A i \in IntervalSet :
        LET candles == poolsData[ThePool].ohlc[i]
        IN /\ StrictlyIncreasing(candles)
           /\ \A k \in 1..Len(candles) : candles[k].timestamp % intervals[i] = 0

\* an update whose sample is older than the start of the last 1m candle,
\* and one that repeats an earlier sample's time, have been folded in
C4_Witness ==
    LET candles == poolsData[ThePool].ohlc["1m"]
    IN /\ last.op = "update"
       /\ Len(candles) >= 2
       /\ last.ts < candles[Len(candles)].timestamp

(***************************************************************************)
(* C5.  In every reachable state every candle of every interval satisfies  *)
(* low <= open <= high, low <= close <= high and low <= high, also for a   *)
(* newly opened candle whose open is seeded from the previous close.       *)
(***************************************************************************)
WithinBounds(candle) ==
    /\ candle.low <= candle.open /\ candle.open <= candle.high
    /\ candle.low <= candle.close /\ candle.close <= candle.high
    /\ candle.low <= candle.high

C5_OhlcBounds ==
    \A i \in IntervalSet :
        \A k \in 1..Len(poolsData[ThePool].ohlc[i]) :
            WithinBounds(poolsData[ThePool].ohlc[i][k])

(***************************************************************************)
(* SpecScenarioA: the samples (10, t0), (12, t0+30s), (9, t0+90s) fed in   *)
(* that order into an empty series, for every t0 up to T0Max.              *)
(***************************************************************************)
T0Max == 59

ScenarioA == <<[price |-> 10, dt |-> 0], [price |-> 12, dt |-> 30],
               [price |-> 9, dt |-> 90]>>

\* t0 of the run, recovered from the time of the last sample fed
ScenarioT0 == IF last.n = 0 THEN last.ts ELSE last.ts - ScenarioA[last.n].dt

InitScenarioA ==
    /\ poolsData = Only(createPoolData)
    /\ file = NoFile
    /\ phase = "off"
    /\ poolsInitializing = {}
    /\ timers = NoTimers
    /\ clock = 0
    /\ poolCalls = NoCalls
    /\ lastProcessedBlocks = NoBlocks
    /\ scans = << >>
    /\ blockNumber = 0
    /\ volumeHistory = << >>
    /\ \E t0 \in 0..T0Max : last = Op("init", EmptyOhlc, 0, Null, t0)

FeedScenarioA ==
    /\ last.n < Len(ScenarioA)
    /\ LET s == ScenarioA[last.n + 1]
           timestamp == ScenarioT0 + s.dt
       IN /\ poolsData' = [poolsData EXCEPT ![ThePool] =
                              updateOHLCData(poolsData[ThePool], s.price, timestamp)]
          /\ last' = [Op("feed", poolsData[ThePool].ohlc, 0, s.price, timestamp)
                          EXCEPT !.n = last.n + 1]
    /\ UNCHANGED service

NextScenarioA == FeedScenarioA

SpecScenarioA == InitScenarioA /\ [][NextScenarioA]_vars

(***************************************************************************)
(* C6.  Feeding (10, t0), (12, t0+30s), (9, t0+90s) into an empty 1m       *)
(* aggregator produces one candle at t0's bucket equal to {open:10,        *)
(* high:12, low:9, close:9}, and the next candle has open 9.               *)
(***************************************************************************)
C6_Original ==
    (last.op = "feed" /\ last.n = 3) =>
        \E k \in 1..Len(poolsData[ThePool].ohlc["1m"]) :
            LET candles == poolsData[ThePool].ohlc["1m"]
            IN /\ candles[k] = [timestamp |-> roundedTimestamp(ScenarioT0, 60),
                                open |-> 10, high |-> 12, low |-> 9, close |-> 9]
               /\ k < Len(candles) => candles[k + 1].open = 9

(***************************************************************************)
(* C6 as amended.  The sample at t0+90s is at least one minute after the   *)
(* start of t0's bucket, so it opens the next candle.  For t0 less than    *)
(* 30 s past a minute boundary the candle at t0's bucket ends as {open:10, *)
(* high:12, low:10, close:12} and the candle opened at the next minute     *)
(* boundary is {open:12, high:9, low:9, close:9}.  For t0 30 s or more     *)
(* past the boundary the second sample already opens the next candle:      *)
(* {10,10,10,10}, then {open:10, 12,12,12}, then {open:12, 9,9,9}.         *)
(***************************************************************************)
C6_ScenarioA ==
    (last.op = "feed" /\ last.n = 3) =>
        LET candles == poolsData[ThePool].ohlc["1m"]
            b == roundedTimestamp(ScenarioT0, 60)
        IN IF ScenarioT0 % 60 < 30
           THEN candles =
                  <<[timestamp |-> b, open |-> 10, high |-> 12, low |-> 10, close |-> 12],
                    [timestamp |-> b + 60, open |-> 12, high |-> 9, low |-> 9, close |-> 9]>>
           ELSE candles =
                  <<[timestamp |-> b, open |-> 10, high |-> 10, low |-> 10, close |-> 10],
                    [timestamp |-> b + 60, open |-> 10, high |-> 12, low |-> 12, close |-> 12],
                    [timestamp |-> b + 120, open |-> 12, high |-> 9, low |-> 9, close |-> 9]>>

\* the three samples have been fed with t0 on a minute boundary
C6_Witness ==
    /\ last.op = "feed" /\ last.n = 3
    /\ ScenarioT0 % 60 = 0
    /\ Len(poolsData[ThePool].ohlc["1m"]) = 2

(***************************************************************************)
(* SpecTrunc: update called on a series one of whose candle lists may be   *)
(* longer than the limit (as left by a loaded document or by backfill,     *)
(* neither of which truncates).                                            *)
(***************************************************************************)
MaxSeedLen == 5
MaxTruncCalls == 2

\* n one-bucket candles at the price 10, at consecutive buckets from 0
SeedCandles(n, ms) ==
    [k \in 1..n |-> [timestamp |-> (k - 1) * ms, open |-> 10,
                     high |-> 10, low |-> 10, close |-> 10]]

InitTrunc ==
    /\ \E iv \in IntervalSet, n \in 0..MaxSeedLen :
          poolsData = Only(
              [createPoolData EXCEPT !.ohlc[iv] = SeedCandles(n, intervals[iv])])
    /\ file = NoFile
    /\ phase = "off"
    /\ poolsInitializing = {}
    /\ timers = NoTimers
    /\ clock = 0
    /\ poolCalls = NoCalls
    /\ lastProcessedBlocks = NoBlocks
    /\ scans = << >>
    /\ blockNumber = 0
    /\ volumeHistory = << >>
    /\ last = Op("init", EmptyOhlc, 0, Null, Null)

TruncUpdate == Update(MaxTruncCalls)

NextTrunc == TruncUpdate

SpecTrunc == InitTrunc /\ [][NextTrunc]_vars

IsSuffix(a, b) ==
    /\ Len(a) <= Len(b)
    /\ a = SubSeq(b, Len(b) - Len(a) + 1, Len(b))

Front(a) == SubSeq(a, 1, Len(a) - 1)

(***************************************************************************)
(* C2.  After every update call, from any starting state (a candle list    *)
(* longer than the cap included), each interval's list holds at most its   *)
(* datapoint cap, and the entries kept are the most recent ones: the       *)
(* candles before the current one are a suffix of the list the call found  *)
(* (of the list without its last candle when that one was updated in       *)
(* place).                                                                 *)
(***************************************************************************)
C2_CapAfterUpdate ==
    last.op = "update" =>
        \A i \in IntervalSet :
            LET post == poolsData[ThePool].ohlc[i]
                pre  == last.pre[i]
            IN /\ Len(post) <= DATAPOINT_LIMITS[i]
               /\ Len(post) >= 1
               /\ post[Len(post)].close = last.price
               /\ \/ IsSuffix(Front(post), pre)
                  \/ IsSuffix(Front(post), Front(pre))
               /\ Len(pre) >= DATAPOINT_LIMITS[i] => Len(post) = DATAPOINT_LIMITS[i]

\* an update has run on a list that was longer than the cap
C2_Witness ==
    /\ last.op = "update"
    /\ \E i \in IntervalSet :
          /\ Len(last.pre[i]) > DATAPOINT_LIMITS[i] + 1
          /\ Len(poolsData[ThePool].ohlc[i]) = DATAPOINT_LIMITS[i]

(***************************************************************************)
(* SpecRepair: validateAndFixOHLCContinuity applied to arbitrary candle    *)
(* lists: every choice of open and close in the 1h list, and a continuous  *)
(* or discontinuous 1m list beside it.                                     *)
(***************************************************************************)
MaxCandles == 5

RepairPrices == {100, 105}

\* candle k of an interval from its open and close
CandleOC(k, ms, open, close) ==
    [timestamp |-> (k - 1) * ms, open |-> open,
     high |-> Max(open, close), low |-> Min(open, close), close |-> close]

AnyCandles(ms) ==
    UNION {{[k \in 1..n |-> CandleOC(k, ms, oc[k][1], oc[k][2])] :
               oc \in [1..n -> RepairPrices \X RepairPrices]} : n \in 0..MaxCandles}

SideLists ==
    {<< >>,
     <<CandleOC(1, 60, 100, 105), CandleOC(2, 60, 105, 100)>>,
     <<CandleOC(1, 60, 100, 105), CandleOC(2, 60, 100, 100), CandleOC(3, 60, 105, 105)>>}

InitRepair ==
    /\ \E hourly \in AnyCandles(3600), side \in SideLists :
          poolsData = Only(
              [createPoolData EXCEPT !.ohlc["1h"] = hourly, !.ohlc["1m"] = side])
    /\ file = NoFile
    /\ phase = "off"
    /\ poolsInitializing = {}
    /\ timers = NoTimers
    /\ clock = 0
    /\ poolCalls = NoCalls
    /\ lastProcessedBlocks = NoBlocks
    /\ scans = << >>
    /\ blockNumber = 0
    /\ volumeHistory = << >>
    /\ last = Op("init", EmptyOhlc, 0, Null, Null)

\* validateAndRepair(series) -> repairCount
Repair ==
    /\ last.op = "init"
    /\ LET r == validateAndFixOHLCContinuity(poolsData[ThePool])
       IN /\ poolsData' = [poolsData EXCEPT ![ThePool] = r.poolData]
          /\ last' = [Op("repair", poolsData[ThePool].ohlc, r.fixCount, Null, Null)
                          EXCEPT !.n = last.n + 1]
    /\ UNCHANGED service

\* a second call, right after the first; last.first is what the first
\* returned
RepairAgain ==
    /\ last.op = "repair"
    /\ LET r == validateAndFixOHLCContinuity(poolsData[ThePool])
       IN /\ poolsData' = [poolsData EXCEPT ![ThePool] = r.poolData]
          /\ last' = [op |-> "repair again", pre |-> poolsData[ThePool].ohlc,
                      ret |-> r.fixCount, price |-> Null, ts |-> Null,
                      n |-> last.n + 1, first |-> last.ret]
    /\ UNCHANGED service

NextRepair == Repair \/ RepairAgain

SpecRepair == InitRepair /\ [][NextRepair]_vars

\* the positions i > 0 of a list whose open differs from the previous close
Discontinuities(candles) ==
    {k \in 2..Len(candles) : candles[k].open # candles[k - 1].close}

(***************************************************************************)
(* C7.  For any candle lists, validateAndRepair sets the open of every     *)
(* candle i > 0 whose open differs from candle[i-1].close to that close,   *)
(* changes nothing else, and returns the total number of such candles over *)
(* all intervals; a document with exactly one discontinuity                *)
(* (candle[3].close = 100, candle[4].open = 105) ends with                 *)
(* candle[4].open = 100 and a repair count of 1.                           *)
(***************************************************************************)
C7_RepairSetsOpens ==
    last.op = "repair" =>
        LET post == poolsData[ThePool].ohlc
            pre  == last.pre
            total == Cardinality({ik \in IntervalSet \X (1..(MaxCandles + 1)) :
                                     ik[2] \in Discontinuities(pre[ik[1]])})
        IN /\ \A i \in IntervalSet :
                /\ Len(post[i]) = Len(pre[i])
                /\ \A k \in 1..Len(pre[i]) :
                      post[i][k] = IF k \in Discontinuities(pre[i])
                                   THEN [pre[i][k] EXCEPT !.open = pre[i][k - 1].close]
                                   ELSE pre[i][k]
           /\ last.ret = total
           /\ (/\ total = 1
               /\ Len(pre["1h"]) >= 5
               /\ pre["1h"][4].close = 100
               /\ pre["1h"][5].open = 105)
              => (post["1h"][5].open = 100 /\ last.ret = 1)

\* Scenario C has been repaired: one discontinuity, between candle[3] and
\* candle[4] of the 1h list
C7_Witness ==
    /\ last.op = "repair"
    /\ last.ret = 1
    /\ Len(last.pre["1h"]) >= 5
    /\ last.pre["1h"][4].close = 100
    /\ last.pre["1h"][5].open = 105
    /\ poolsData[ThePool].ohlc["1h"][5].open = 100

(***************************************************************************)
(* SpecBackfill: backfillHistoricalOHLC applied, once and again, to a      *)
(* series with a stored raw history and short or populated candle lists.   *)
(* The history holds the samples in the order updatePrice pushed them,     *)
(* which is the order of the clock readings, not sorted by the code.       *)
(***************************************************************************)
MaxHist == 4

HistTimes == {0, 60, 120, 300}

HistSamples == [price : Prices, timestamp : HistTimes]

Histories == UNION {[1..n -> HistSamples] : n \in 0..MaxHist}

InitBackfill ==
    /\ \E history \in Histories, n \in 0..2 :
          poolsData = Only(
              [createPoolData EXCEPT !.history = history,
                                     !.ohlc["1m"] = SeedCandles(n, 60),
                                     !.ohlc["24h"] = SeedCandles(2 - n, 86400)])
    /\ file = NoFile
    /\ phase = "off"
    /\ poolsInitializing = {}
    /\ timers = NoTimers
    /\ clock = 0
    /\ poolCalls = NoCalls
    /\ lastProcessedBlocks = NoBlocks
    /\ scans = << >>
    /\ blockNumber = 0
    /\ volumeHistory = << >>
    /\ last = Op("init", EmptyOhlc, 0, Null, Null)

\* backfill(series), for every interval
Backfill ==
    /\ last.n < 2
    /\ poolsData' = [poolsData EXCEPT ![ThePool] =
                        backfillHistoricalOHLC(poolsData[ThePool])]
    /\ last' = [Op("backfill", poolsData[ThePool].ohlc, 0, Null, Null)
                    EXCEPT !.n = last.n + 1]
    /\ UNCHANGED service

NextBackfill == Backfill

SpecBackfill == InitBackfill /\ [][NextBackfill]_vars

\* the same, restricted to histories stored in ascending timestamp order
\* (every clock reading at or after the one before)
InitBackfillAsc ==
    /\ InitBackfill
    /\ \A k \in 2..Len(poolsData[ThePool].history) :
          poolsData[ThePool].history[k - 1].timestamp
              <= poolsData[ThePool].history[k].timestamp

SpecBackfillAsc == InitBackfillAsc /\ [][NextBackfill]_vars

(***************************************************************************)
(* C3.  In every state at rest (after load, backfill, interval derivation, *)
(* update or prune) every interval's candle list has length at most the    *)
(* per-interval datapoint cap; in particular backfill never leaves a list  *)
(* longer than the cap.                                                    *)
(***************************************************************************)
C3_CapAtRest ==
    last.op # "init" =>
        \A i \in IntervalSet :
            Len(poolsData[ThePool].ohlc[i]) <= DATAPOINT_LIMITS[i]

(***************************************************************************)
(* C9.  backfill leaves every interval that already has at least 2 candles *)
(* unchanged, and calling backfill twice in a row yields exactly the same  *)
(* candle lists as calling it once.                                        *)
(***************************************************************************)
C9_BackfillIdempotent ==
    last.op = "backfill" =>
        /\ \A i \in IntervalSet :
              Len(last.pre[i]) >= 2 => poolsData[ThePool].ohlc[i] = last.pre[i]
        /\ last.n = 2 => poolsData[ThePool].ohlc = last.pre

\* the second of two backfills has run on a series whose first backfill
\* rebuilt the 1m list from a history of several buckets and left the 5m
\* list with a single candle
C9_Witness ==
    /\ last.op = "backfill" /\ last.n = 2
    /\ Len(poolsData[ThePool].history) >= 2
    /\ Len(poolsData[ThePool].ohlc["1m"]) >= 2
    /\ Len(poolsData[ThePool].ohlc["5m"]) = 1
    /\ Len(poolsData[ThePool].ohlc["24h"]) = 2

\* the history sorted by ascending timestamp (stable insertion sort)
RECURSIVE InsertByTimestamp(_, _)
InsertByTimestamp(sorted, item) ==
    IF sorted = << >> THEN <<item>>
    ELSE IF sorted[Len(sorted)].timestamp <= item.timestamp
         THEN Append(sorted, item)
         ELSE Append(InsertByTimestamp(Front(sorted), item), sorted[Len(sorted)])

RECURSIVE AscendingFrom(_, _, _)
AscendingFrom(history, k, sorted) ==
    IF k > Len(history) THEN sorted
    ELSE AscendingFrom(history, k + 1, InsertByTimestamp(sorted, history[k]))

Ascending(history) == AscendingFrom(history, 1, << >>)

\* the samples replayed through steps 2 and 3 of update, from position k on
RECURSIVE ReplayUpdate(_, _, _, _)
ReplayUpdate(currentOHLC, ms, samples, k) ==
    IF k > Len(samples) THEN currentOHLC
    ELSE ReplayUpdate(foldSample(currentOHLC, ms, samples[k].price, samples[k].timestamp),
                      ms, samples, k + 1)

(***************************************************************************)
(* C10.  For any stored raw history and any interval with fewer than 2     *)
(* candles, backfill produces exactly the candle list obtained by          *)
(* replaying the history samples in ascending timestamp order, from an     *)
(* empty list, through steps 2 and 3 of update, and that list satisfies    *)
(* continuity.                                                             *)
(***************************************************************************)
C10_BackfillIsReplay ==
    (last.op = "backfill" /\ last.n = 1) =>
        \A i \in IntervalSet :
            Len(last.pre[i]) < 2 =>
                /\ poolsData[ThePool].ohlc[i] =
                      ReplayUpdate(<< >>, intervals[i],
                                   Ascending(poolsData[ThePool].history), 1)
                /\ Continuous(poolsData[ThePool].ohlc[i])

(***************************************************************************)
(* Spec: the service.  init() loads the document found at dataFilePath,    *)
(* requests register pools, and every registered pool is ticked by         *)
(* updatePrice, which saves a snapshot when the tick falls in the first    *)
(* second of a minute.  A tick runs to its call of fs.writeJson without    *)
(* yielding (the repair pass and the serialization of the document are     *)
(* synchronous), so other ticks interleave only between these steps.       *)
(***************************************************************************)
MaxTicks == 2
MaxDocPools == 2

TickTimes == {120, 150, 691200}

Candle(timestamp, open, close) ==
    [timestamp |-> timestamp, open |-> open,
     high |-> Max(open, close), low |-> Min(open, close), close |-> close]

\* Scenario C: candle[3].close = 100 but candle[4].open = 105
LoadedScenarioC ==
    [createPoolData EXCEPT
        !.latestPrice = 105, !.lastUpdated = 14400,
        !.ohlc["1h"] = <<Candle(0, 100, 100), Candle(3600, 100, 100),
                         Candle(7200, 100, 100), Candle(10800, 100, 100),
                         Candle(14400, 105, 105)>>]

\* a continuous series whose 1h candles are not in timestamp order: pruning
\* at day 8 removes the middle candle and leaves 10 followed by an open of 12
LoadedUnordered ==
    [createPoolData EXCEPT
        !.latestPrice = 12, !.lastUpdated = 691200,
        !.ohlc["1h"] = <<Candle(604800, 10, 10), Candle(0, 10, 12),
                         Candle(691200, 12, 12)>>]

LoadedSeries == {LoadedScenarioC, LoadedUnordered}

\* the keys a document may hold: one pool, as written by a request in
\* checksum case and as written by saveDataToFile
DocKeys == {"0xAA", "0xaa"}

\* the addresses requests may name
RequestAddresses == {"0xAA", "0xbb"}

DocEntries == [poolAddress : DocKeys, poolData : LoadedSeries]

\* the volume log of the documents found at start
DocVolumeHistory == <<[volume |-> 5, timestamp |-> 60]>>

\* Object.entries(data.pools): the keys of an object are distinct
DocPools ==
    {entries \in UNION {[1..n -> DocEntries] : n \in 0..MaxDocPools} :
        \A i, j \in 1..Len(entries) :
            i # j => entries[i].poolAddress # entries[j].poolAddress}

Documents ==
    {NoFile, LegacyDocument}
    \cup {Document(entries, DocVolumeHistory, "external") : entries \in DocPools}

Init ==
    /\ poolsData = [p \in Addresses |-> NoPool]
    /\ file \in Documents
    /\ phase = "boot"
    /\ poolsInitializing = {}
    /\ timers = NoTimers
    /\ clock = 0
    /\ poolCalls = NoCalls
    /\ lastProcessedBlocks = NoBlocks
    /\ scans = << >>
    /\ blockNumber = 0
    /\ volumeHistory = << >>
    /\ last = Op("init", EmptyOhlc, 0, Null, Null)

\* init(): initializeDataFile, before the server listens and any timer runs
InitializeDataFile ==
    /\ phase = "boot"
    /\ LET r == initializeDataFile(poolsData, volumeHistory, file)
       IN /\ poolsData' = r.pools
          /\ volumeHistory' = r.volumeHistory
          /\ file' = r.file
          /\ last' = Op("load", EmptyOhlc, r.fixCount, Null, Null)
    /\ phase' = "running"
    /\ UNCHANGED tasks

\* parsePoolAddress on a request naming a valid address
ParsePoolAddress ==
    \E poolAddress \in RequestAddresses :
        /\ phase = "running"
        /\ poolsData[toLowerCase(poolAddress)] = NoPool
        /\ LET parsed == parsePoolAddress(poolsData, poolsInitializing, poolAddress)
           IN /\ poolsData' = parsed.pools
              /\ poolsInitializing' = parsed.poolsInitializing
        /\ last' = [Op("request", EmptyOhlc, 0, Null, Null) EXCEPT !.n = last.n]
        /\ UNCHANGED <<file, phase, volumeHistory, timers, clock, poolCalls, eventScan>>

\* one run of updatePrice for a registered pool whose fetch succeeded,
\* with the save it makes when due; fs.writeJson may fail
UpdatePrice ==
    \E p \in PoolIds, price \in Prices, now \in TickTimes, writeOk \in BOOLEAN :
        /\ phase = "running"
        /\ poolsData[p] # NoPool
        /\ last.n < MaxTicks
        /\ LET folded == [getPoolData(poolsData, p) EXCEPT
                              ![p] = foldPrice(@, price, now)]
               saved == saveDataToFile(folded, volumeHistory)
           IN IF saveDue(now)
              THEN /\ poolsData' = saved.pools
                   /\ file' = IF writeOk THEN saved.dataToSave ELSE file
                   /\ last' = [Op("tick", poolsData[p].ohlc, saved.fixCount, price, now)
                                   EXCEPT !.n = last.n + 1]
              ELSE /\ poolsData' = folded
                   /\ writeOk
                   /\ file' = file
                   /\ last' = [Op("tick", poolsData[p].ohlc, 0, price, now)
                                   EXCEPT !.n = last.n + 1]
        /\ UNCHANGED <<phase, volumeHistory, tasks>>

Next == InitializeDataFile \/ ParsePoolAddress \/ UpdatePrice

Spec == Init /\ [][Next]_vars

AllContinuous(poolData) ==
    \A i \in IntervalSet : Continuous(poolData.ohlc[i])

(***************************************************************************)
(* C8.  The continuity repair runs on every load from persisted state and  *)
(* before every snapshot save: every PriceSeries in the registry           *)
(* immediately after initializeDataFile, and every document written by     *)
(* saveDataToFile, satisfies candle[i].open == candle[i-1].close for all   *)
(* intervals, whatever ticks are interleaved with the save.                *)
(***************************************************************************)
C8_RepairOnLoadAndSave ==
    /\ last.op = "load" =>
          \A p \in PoolIds : poolsData[p] # NoPool => AllContinuous(poolsData[p])
    /\ (file.exists /\ file.writer = "save") =>
          \A k \in 1..Len(file.pools) : AllContinuous(file.pools[k].poolData)

\* a tick has saved a document after its repair pass rewrote an open, in a
\* registry loaded from a document
C8_Witness ==
    /\ last.op = "tick"
    /\ last.ret >= 1
    /\ file.exists /\ file.writer = "save"
    /\ Len(file.pools) >= 1

\* a load has repaired a discontinuous document
C8_LoadWitness ==
    /\ last.op = "load"
    /\ last.ret >= 1

(***************************************************************************)
(* SpecDerive: generateIntervalsFromExisting applied to a series whose 1h  *)
(* or 5m list holds any candles, in any order.                             *)
(***************************************************************************)
MaxSource == 3

DeriveTimes == {0, 3600, 21600}

SourceCandles ==
    {Candle(t, open, close) : t \in DeriveTimes, open \in Prices, close \in Prices}

SourceLists == UNION {[1..n -> SourceCandles] : n \in 0..MaxSource}

InitDerive ==
    /\ \E source \in SourceLists, key \in {"1h", "5m"} :
          poolsData = Only([createPoolData EXCEPT !.ohlc[key] = source])
    /\ file = NoFile
    /\ phase = "off"
    /\ poolsInitializing = {}
    /\ timers = NoTimers
    /\ clock = 0
    /\ poolCalls = NoCalls
    /\ lastProcessedBlocks = NoBlocks
    /\ scans = << >>
    /\ blockNumber = 0
    /\ volumeHistory = << >>
    /\ last = Op("init", EmptyOhlc, 0, Null, Null)

Derive ==
    /\ last.op = "init"
    /\ poolsData' = [poolsData EXCEPT ![ThePool] = generateIntervalsFromExisting(@)]
    /\ last' = Op("derive", poolsData[ThePool].ohlc, 0, Null, Null)
    /\ UNCHANGED service

NextDerive == Derive

SpecDerive == InitDerive /\ [][NextDerive]_vars

\* the candles of source that fall in the target bucket starting at timestamp
InBucket(source, timestamp, ms) ==
    {k \in 1..Len(source) : roundedTimestamp(source[k].timestamp, ms) = timestamp}

\* high and low of a derived candle are the extremes of its source candles
DerivedExtremes(source, candle, ms) ==
    LET S == InBucket(source, candle.timestamp, ms)
    IN /\ S # {}
       /\ \E k \in S : candle.high = source[k].high
       /\ \A k \in S : candle.high >= source[k].high
       /\ \E k \in S : candle.low = source[k].low
       /\ \A k \in S : candle.low <= source[k].low

\* close of a derived candle is the close of a source candle than which no
\* source candle of the bucket is later
DerivedClose(source, candle, ms) ==
    LET S == InBucket(source, candle.timestamp, ms)
    IN \E k \in S :
          /\ \A j \in S : source[j].timestamp <= source[k].timestamp
          /\ candle.close = source[k].close

\* the 1h list the 6h and 12h lists were derived from
DeriveSource == poolsData[ThePool].ohlc["1h"]

(***************************************************************************)
(* C11.  For any source candle series, every candle produced by            *)
(* deriveInterval has high equal to the maximum of the highs, low equal to *)
(* the minimum of the lows, and close equal to the close of the            *)
(* chronologically last (largest timestamp) of the source candles that     *)
(* fall in its target bucket, also when the source series is not sorted by *)
(* timestamp.                                                              *)
(***************************************************************************)
C11_DerivationLaw ==
    last.op = "derive" =>
        \A key \in {"6h", "12h"} :
            \A k \in 1..Len(poolsData[ThePool].ohlc[key]) :
                /\ DerivedExtremes(DeriveSource, poolsData[ThePool].ohlc[key][k],
                                   intervals[key])
                /\ DerivedClose(DeriveSource, poolsData[ThePool].ohlc[key][k],
                                intervals[key])

\* the part of C11 that holds of the code: the extremes
C11_Extremes ==
    last.op = "derive" =>
        \A key \in {"6h", "12h"} :
            \A k \in 1..Len(poolsData[ThePool].ohlc[key]) :
                DerivedExtremes(DeriveSource, poolsData[ThePool].ohlc[key][k],
                                intervals[key])

(***************************************************************************)
(* SpecPrune: cleanupOldData applied at time now to a series whose raw     *)
(* history and 24h, 1h, 1w and 1M lists hold entries just older than, at   *)
(* and just younger than each retention cutoff, in any order.              *)
(***************************************************************************)
MaxPruneLen == 3

\* a time later than the widest retention window
PruneBase == 400000000

PruneNows == {PruneBase, PruneBase + 1}

\* distance of an entry from the cutoff taken at PruneBase
PruneOffsets == {0 - 1, 0, 1}

OffsetLists == UNION {[1..n -> PruneOffsets] : n \in 0..MaxPruneLen}

\* the retention windows of cleanupOldData
RetentionWindow ==
    [history |-> 24 * 60 * 60 + 60,
     h24 |-> 30 * 24 * 60 * 60,
     h1 |-> 7 * 24 * 60 * 60,
     w1 |-> 2 * 365 * 24 * 60 * 60,
     M1 |-> 10 * 365 * 24 * 60 * 60]

AgedCandles(offsets, window) ==
    [k \in 1..Len(offsets) |-> Candle(PruneBase - window + offsets[k], 10, 10)]

AgedHistory(offsets, window) ==
    [k \in 1..Len(offsets) |->
        [price |-> 10, timestamp |-> PruneBase - window + offsets[k]]]

InitPrune ==
    /\ \E offsets \in OffsetLists :
          poolsData = Only([createPoolData EXCEPT
              !.history = AgedHistory(offsets, RetentionWindow.history),
              !.ohlc["24h"] = AgedCandles(offsets, RetentionWindow.h24),
              !.ohlc["1h"] = AgedCandles(offsets, RetentionWindow.h1),
              !.ohlc["1w"] = AgedCandles(offsets, RetentionWindow.w1),
              !.ohlc["1M"] = AgedCandles(offsets, RetentionWindow.M1),
              !.ohlc["1m"] = AgedCandles(offsets, RetentionWindow.M1)])
    /\ file = NoFile
    /\ phase = "off"
    /\ poolsInitializing = {}
    /\ timers = NoTimers
    /\ clock = 0
    /\ poolCalls = NoCalls
    /\ lastProcessedBlocks = NoBlocks
    /\ scans = << >>
    /\ blockNumber = 0
    /\ volumeHistory = << >>
    /\ last = Op("init", EmptyOhlc, 0, Null, Null)

Prune ==
    \E now \in PruneNows :
        /\ last.op = "init"
        /\ poolsData' = [poolsData EXCEPT ![ThePool] = cleanupOldData(@, now)]
        /\ last' = Op("prune", poolsData[ThePool].ohlc, 0, Null, now)
        /\ UNCHANGED service

NextPrune == Prune

SpecPrune == InitPrune /\ [][NextPrune]_vars

NoneOlder(list, cutoff) ==
    \A k \in 1..Len(list) : list[k].timestamp >= cutoff

(***************************************************************************)
(* C12.  Immediately after prune runs at time now, no raw history entry    *)
(* has timestamp older than now - (24h + 1 minute), no 24h candle is older *)
(* than now - 30 days, no 1h candle older than now - 7 days, no 1w candle  *)
(* older than now - 2 years and no 1M candle older than now - 10 years     *)
(* (a year being 365 days).                                                *)
(***************************************************************************)
C12_PruneAges ==
    last.op = "prune" =>
        /\ NoneOlder(poolsData[ThePool].history, last.ts - RetentionWindow.history)
        /\ NoneOlder(poolsData[ThePool].ohlc["24h"], last.ts - RetentionWindow.h24)
        /\ NoneOlder(poolsData[ThePool].ohlc["1h"], last.ts - RetentionWindow.h1)
        /\ NoneOlder(poolsData[ThePool].ohlc["1w"], last.ts - RetentionWindow.w1)
        /\ NoneOlder(poolsData[ThePool].ohlc["1M"], last.ts - RetentionWindow.M1)

\* a prune removed entries from the middle of each list and kept others
C12_Witness ==
    /\ last.op = "prune"
    /\ \A key \in {"24h", "1h", "1w", "1M"} :
          /\ Len(poolsData[ThePool].ohlc[key]) >= 1
          /\ Len(poolsData[ThePool].ohlc[key]) < Len(last.pre[key])
    /\ Len(poolsData[ThePool].history) >= 1
    /\ Len(poolsData[ThePool].ohlc["1m"]) = MaxPruneLen

(***************************************************************************)
(* SpecVolume: swap events recorded by queryPastEvents for either pool and *)
(* GET /api/volume requests, as the clock advances, starting with the log  *)
(* restored from a document.  last.events is the history of the recorded   *)
(* events with the pool each was recorded for; last.ts is the clock.       *)
(* SpecVolumeFresh starts with the empty log.                              *)
(***************************************************************************)
MaxEvents == 3
MaxRestored == 2

VolumeBase == 3000000

\* the clock: at the start, more than a day later, more than 30 days later
VolumeTimes == {VolumeBase, VolumeBase + 24 * 60 * 60 + 1,
                VolumeBase + 30 * 24 * 60 * 60 + 1}

Amounts == {5, 7}

\* entries of a restored log: older than 30 days at the start, and recent
RestoredEntries ==
    {[volume |-> 3, timestamp |-> VolumeBase - (30 * 24 * 60 * 60 + 1)],
     [volume |-> 3, timestamp |-> VolumeBase - 100]}

RestoredLogs == UNION {[1..n -> RestoredEntries] : n \in 0..MaxRestored}

VolumeOp(name, pool, ret, ts, events) ==
    [op |-> name, pool |-> pool, ret |-> ret, ts |-> ts, events |-> events]

InitVolume ==
    /\ poolsData = [p \in Addresses |-> NoPool]
    /\ file = NoFile
    /\ phase = "off"
    /\ poolsInitializing = {}
    /\ timers = NoTimers
    /\ clock = 0
    /\ poolCalls = NoCalls
    /\ lastProcessedBlocks = NoBlocks
    /\ scans = << >>
    /\ blockNumber = 0
    /\ volumeHistory \in RestoredLogs
    /\ last = VolumeOp("init", "", createPoolData.volume, VolumeBase, << >>)

InitVolumeFresh ==
    /\ InitVolume
    /\ volumeHistory = << >>

\* queryPastEvents processing one swap event of pool p
RecordVolume ==
    \E p \in PoolIds, volumeUSD \in Amounts, now \in VolumeTimes :
        /\ now >= last.ts
        /\ Len(last.events) < MaxEvents
        /\ LET pools == getPoolData(poolsData, p)
               r == updateVolume(pools[p], volumeHistory, volumeUSD, now)
           IN /\ poolsData' = [pools EXCEPT ![p] = r.poolData]
              /\ volumeHistory' = r.volumeHistory
              /\ last' = VolumeOp("updateVolume", p, r.poolData.volume, now,
                                  Append(last.events,
                                         [pool |-> p, volume |-> volumeUSD,
                                          timestamp |-> now]))
        /\ UNCHANGED <<file, phase, tasks>>

\* GET /api/volume for pool p; last.ret is the volume of the response
GetVolume ==
    \E p \in PoolIds, now \in VolumeTimes :
        /\ now >= last.ts
        /\ poolsData' = getPoolData(poolsData, p)
        /\ last' = VolumeOp("getVolume", p, getPoolData(poolsData, p)[p].volume,
                            now, last.events)
        /\ UNCHANGED service

NextVolume == RecordVolume \/ GetVolume

SpecVolume == InitVolume /\ [][NextVolume]_vars

SpecVolumeFresh == InitVolumeFresh /\ [][NextVolume]_vars

\* the sum of the events recorded for pool p with timestamp in [from, to]
RECURSIVE OwnSum(_, _, _, _, _)
OwnSum(events, p, from, to, k) ==
    IF k > Len(events) THEN 0
    ELSE (IF /\ events[k].pool = p
             /\ events[k].timestamp >= from
             /\ events[k].timestamp <= to
          THEN events[k].volume ELSE 0)
         + OwnSum(events, p, from, to, k + 1)

(***************************************************************************)
(* C13.  At every moment a query can observe it (not only right after a    *)
(* recordVolume call), an entity's volume.24h equals the sum of the        *)
(* amounts of the logged volume events whose timestamp lies in             *)
(* [now - 24h, now], whatever the order in which the events were recorded. *)
(* Stated for the queries made while every event so far was recorded for   *)
(* the queried entity, so that the events of other entities play no part.  *)
(***************************************************************************)
C13_RollingSumAtQuery ==
    (/\ last.op = "getVolume"
     /\ \A k \in 1..Len(last.events) : last.events[k].pool = last.pool)
    => last.ret.h24 = OwnSum(last.events, last.pool,
                             last.ts - 24 * 60 * 60, last.ts, 1)

(***************************************************************************)
(* C14.  After every recordVolume call at time now, the volume log         *)
(* contains no entry with timestamp older than now - 30 days, for any      *)
(* order of entry timestamps in the log (including a log restored from a   *)
(* snapshot).                                                              *)
(***************************************************************************)
C14_LogWithin30Days ==
    last.op = "updateVolume" =>
        \A k \in 1..Len(volumeHistory) :
            volumeHistory[k].timestamp >= last.ts - 30 * 24 * 60 * 60

(***************************************************************************)
(* C16.  Entities are independent for volume: a volume event recorded for  *)
(* entity A never contributes to entity B's 24h, 7d or 30d rolling sums,   *)
(* so each entity's rolling sums are sums of that entity's own events      *)
(* only.                                                                   *)
(***************************************************************************)
C16_VolumeIndependent ==
    last.op = "updateVolume" =>
        /\ last.ret.h24 = OwnSum(last.events, last.pool,
                                 last.ts - 24 * 60 * 60, last.ts, 1)
        /\ last.ret.d7 = OwnSum(last.events, last.pool,
                                last.ts - 7 * 24 * 60 * 60, last.ts, 1)
        /\ last.ret.d30 = OwnSum(last.events, last.pool,
                                 last.ts - 30 * 24 * 60 * 60, last.ts, 1)

\* with one entity only, the sums right after a recordVolume call are right
C16_SingleEntity ==
    (/\ last.op = "updateVolume"
     /\ \A k \in 1..Len(last.events) : last.events[k].pool = last.pool)
    => C16_VolumeIndependent

\* from the empty log, where the clock never runs backwards, the log is
\* within 30 days after every recordVolume call
C14_FreshLog ==
    last.op = "updateVolume" =>
        \A k \in 1..Len(volumeHistory) :
            volumeHistory[k].timestamp + 30 * 24 * 60 * 60 >= last.ts

(***************************************************************************)
(* SpecRegistry: the registry after init() loaded any document, under      *)
(* requests that name a pool in either spelling.  last.pre is the registry *)
(* before the call, last.ret the series getPoolData returned.              *)
(***************************************************************************)
RegistryOp(name, address, pre, ret) ==
    [op |-> name, address |-> address, pre |-> pre, ret |-> ret]

InitRegistry ==
    /\ poolsData = [p \in Addresses |-> NoPool]
    /\ file \in Documents
    /\ phase = "boot"
    /\ poolsInitializing = {}
    /\ timers = NoTimers
    /\ clock = 0
    /\ poolCalls = NoCalls
    /\ lastProcessedBlocks = NoBlocks
    /\ scans = << >>
    /\ blockNumber = 0
    /\ volumeHistory = << >>
    /\ last = RegistryOp("init", "", poolsData, NoPool)

\* init(): initializeDataFile
LoadRegistry ==
    /\ phase = "boot"
    /\ LET r == initializeDataFile(poolsData, volumeHistory, file)
       IN /\ poolsData' = r.pools
          /\ volumeHistory' = r.volumeHistory
          /\ file' = r.file
          /\ last' = RegistryOp("load", "", poolsData, NoPool)
    /\ phase' = "running"
    /\ UNCHANGED tasks

\* a request for poolAddress: parsePoolAddress, then the handler's getPoolData
RequestPool ==
    \E poolAddress \in Addresses :
        /\ phase = "running"
        /\ LET parsed == parsePoolAddress(poolsData, poolsInitializing, poolAddress)
               registry == getPoolData(parsed.pools, poolAddress)
           IN /\ poolsData' = registry
              /\ poolsInitializing' = parsed.poolsInitializing
              /\ last' = RegistryOp("getPoolData", poolAddress, poolsData,
                                    registry[toLowerCase(poolAddress)])
        /\ UNCHANGED <<file, phase, volumeHistory, timers, clock, poolCalls, eventScan>>

\* GET /api/price/latest with any pool parameter; last.ret is the response
GetLatest ==
    \E poolAddress \in PoolParams :
        /\ phase = "running"
        /\ LET r == latestEndpoint(poolsData, poolsInitializing, poolAddress)
           IN /\ poolsData' = r.pools
              /\ poolsInitializing' = r.poolsInitializing
              /\ last' = RegistryOp("getLatest", poolAddress, poolsData, r.response)
        /\ UNCHANGED <<file, phase, volumeHistory, timers, clock, poolCalls, eventScan>>

NextRegistry == LoadRegistry \/ RequestPool \/ GetLatest

SpecRegistry == InitRegistry /\ [][NextRegistry]_vars

\* the normalized id of an address
NormalizedId(address) ==
    IF address \in {"0xAA", "0xaa"} THEN "0xaa" ELSE "0xbb"

(***************************************************************************)
(* C15.  getOrCreate is case-insensitive and stable: for any two ids that  *)
(* differ only in letter case, every call returns the same PriceSeries     *)
(* object; the first call creates an empty series, no later call or load   *)
(* replaces it, and the registry never holds two entries for one           *)
(* normalized id.                                                          *)
(***************************************************************************)
C15_GetOrCreate ==
    /\ \A a \in Addresses : poolsData[a] # NoPool => a = NormalizedId(a)
    /\ last.op = "getPoolData" =>
          LET id == NormalizedId(last.address)
          IN /\ last.ret = poolsData[id]
             /\ last.ret # NoPool
             /\ last.pre[id] = NoPool =>
                   /\ last.ret = createPoolData
                   /\ poolsData = [last.pre EXCEPT ![id] = createPoolData]
             /\ last.pre[id] # NoPool =>
                   /\ last.ret = last.pre[id]
                   /\ poolsData = last.pre

\* a request in checksum case has returned the series that a document or an
\* earlier request registered, while the other pool is registered too
C15_Witness ==
    /\ last.op = "getPoolData"
    /\ last.address = "0xAA"
    /\ last.pre["0xaa"] # NoPool
    /\ last.pre["0xaa"] # createPoolData
    /\ poolsData["0xbb"] = createPoolData

(***************************************************************************)
(* SpecFresh: the service started without a document, or with one that     *)
(* holds no pool, so that every series of the registry was created by a    *)
(* request.  Besides the ticks, the Swap listener of a registered pool     *)
(* writes its series.  Each action is one run of a handler between the     *)
(* points where it yields, so the states of the model are the states a     *)
(* request handler can observe.                                            *)
(***************************************************************************)
InitFresh ==
    /\ Init
    /\ file \in {NoFile, LegacyDocument, Document(<< >>, DocVolumeHistory, "external")}

\* the Swap listener of a registered pool, for one event
SwapEvent ==
    \E p \in PoolIds, price \in Prices, now \in TickTimes :
        /\ phase = "running"
        /\ poolsData[p] # NoPool
        /\ last.n < MaxTicks
        /\ LET pools == getPoolData(poolsData, p)
               r == swapListener(pools[p], volumeHistory, price, 5, now)
           IN /\ poolsData' = [pools EXCEPT ![p] = r.poolData]
              /\ volumeHistory' = r.volumeHistory
        /\ last' = [Op("swap", poolsData[p].ohlc, 0, price, now)
                        EXCEPT !.n = last.n + 1]
        /\ UNCHANGED <<file, phase, tasks>>

NextFresh == InitializeDataFile \/ ParsePoolAddress \/ UpdatePrice \/ SwapEvent

SpecFresh == InitFresh /\ [][NextFresh]_vars

\* the last candle of every interval closes at the latest price
Folded(poolData) ==
    \A i \in IntervalSet :
        /\ Len(poolData.ohlc[i]) > 0
        /\ poolData.ohlc[i][Len(poolData.ohlc[i])].close = poolData.latestPrice

(***************************************************************************)
(* C17.  Every query observes a consistent PriceSeries: in any state a     *)
(* request handler can observe under any interleaving of ticks and         *)
(* requests, starting from an empty registry, if an entity's latestPrice   *)
(* is non-null then the close of the last candle of every one of the ten   *)
(* intervals equals latestPrice (no state is visible in which a sample is  *)
(* recorded in latestPrice/history but not yet folded into all candles).   *)
(***************************************************************************)
C17_ConsistentSeries ==
    \A p \in Addresses :
        (poolsData[p] # NoPool /\ poolsData[p].latestPrice # Null)
            => Folded(poolsData[p])

\* both pools hold a price, one written by a tick that pruned and saved, after
\* samples at different prices
C17_Witness ==
    /\ last.op = "tick"
    /\ last.ts = 691200
    /\ file.exists /\ file.writer = "save"
    /\ \A p \in PoolIds : poolsData[p] # NoPool /\ poolsData[p].latestPrice # Null
    /\ poolsData["0xaa"].latestPrice # poolsData["0xbb"].latestPrice

(***************************************************************************)
(* C18.  getLatest returns the error NO_DATA, not a successful response    *)
(* with null fields, whenever the entity is unknown or has no price yet.   *)
(***************************************************************************)
C18_LatestNoData ==
    (/\ last.op = "getLatest"
     /\ last.address \in Addresses
     /\ \/ last.pre[NormalizedId(last.address)] = NoPool
        \/ last.pre[NormalizedId(last.address)].latestPrice = Null)
    => last.ret.status # 200

(***************************************************************************)
(* SpecQuery: the four candle endpoints asked about a registered series    *)
(* whose 1m list holds up to MaxQueryCandles candles, with any interval    *)
(* token and any from_timestamp and to_timestamp.  last holds the request  *)
(* and last.ret the response.                                              *)
(***************************************************************************)
MaxQueryCandles == 5

QueryTimes == {0, 60, 120, 240}

TimestampParams == {AbsentParam, NaNParam} \cup {IntParam(n) : n \in QueryTimes}

\* "" is a request without the interval parameter; "2h" does not normalize
IntervalTokens == {"", "1m", "1", "2h"}

Endpoints == {"/api/price/query", "/api/price/ohlc",
              "/api/price/ohlc/:interval", "/api/price/:interval"}

\* the time of the requests
QueryNow == 300

QueryHistory ==
    <<[price |-> 10, timestamp |-> 0], [price |-> 12, timestamp |-> 60],
      [price |-> 10, timestamp |-> 120], [price |-> 12, timestamp |-> 180]>>

QueryOp(name, endpoint, interval, from, to, ret) ==
    [op |-> name, endpoint |-> endpoint, interval |-> interval,
     from |-> from, to |-> to, ret |-> ret]

InitQuery ==
    /\ \E n \in 0..MaxQueryCandles, m \in {0, Len(QueryHistory)} :
          poolsData = Only([createPoolData EXCEPT
                               !.latestPrice = 10,
                               !.lastUpdated = 240,
                               !.history = SubSeq(QueryHistory, 1, m),
                               !.ohlc["1m"] = SeedCandles(n, 60)])
    /\ file = NoFile
    /\ phase = "off"
    /\ poolsInitializing = {}
    /\ timers = NoTimers
    /\ clock = 0
    /\ poolCalls = NoCalls
    /\ lastProcessedBlocks = NoBlocks
    /\ scans = << >>
    /\ blockNumber = 0
    /\ volumeHistory = << >>
    /\ last = QueryOp("init", "", "", AbsentParam, AbsentParam, [status |-> 0])

respond(endpoint, poolData, interval, from, to, now) ==
    CASE endpoint \in {"/api/price/query", "/api/price/ohlc"} ->
             queryEndpoint(poolData, interval, from, to)
      [] endpoint = "/api/price/ohlc/:interval" ->
             ohlcIntervalEndpoint(poolData, interval, from, to)
      [] endpoint = "/api/price/:interval" ->
             priceIntervalEndpoint(poolData, interval, from, to, now)

\* one request to a candle endpoint, which leaves the series as it is; a
\* path always carries its interval
Query ==
    \E endpoint \in Endpoints, interval \in IntervalTokens,
       from \in TimestampParams, to \in TimestampParams :
        /\ last.op = "init"
        /\ endpoint \in {"/api/price/ohlc/:interval", "/api/price/:interval"}
              => interval # ""
        /\ last' = QueryOp("query", endpoint, interval, from, to,
                           respond(endpoint, poolsData[ThePool], interval,
                                   from, to, QueryNow))
        /\ UNCHANGED <<poolsData, service>>

NextQuery == Query

SpecQuery == InitQuery /\ [][NextQuery]_vars

\* the candles whose timestamp lies in the inclusive range of the request,
\* each bound applied when the request gave it
Qualifying(candles, from, to) ==
    SelectSeq(candles,
              LAMBDA candle :
                  /\ (from.kind = "int" => candle.timestamp >= from.value)
                  /\ (to.kind = "int" => candle.timestamp <= to.value))

Inverted(from, to) ==
    from.kind = "int" /\ to.kind = "int" /\ from.value > to.value

(***************************************************************************)
(* C19.  getCandles returns, in ascending order, exactly the last          *)
(* min(limit, n) of the n candles whose timestamp lies in the inclusive    *)
(* range [from, to] (each bound applied whenever it is given, for every    *)
(* bound value including 0), and count equals the number returned; with    *)
(* 20 qualifying candles and limit 5 it returns the 5 most recent.         *)
(* Stated of the successful responses that carry candles, for requests     *)
(* whose range is not inverted; limit is the datapoint limit of the        *)
(* interval.                                                               *)
(***************************************************************************)
C19_GetCandles ==
    (/\ last.op = "query"
     /\ last.ret.status = 200
     /\ "ohlc" \in DOMAIN last.ret
     /\ ~Inverted(last.from, last.to))
    => /\ last.ret.ohlc =
              sliceLast(Qualifying(poolsData[ThePool].ohlc[last.ret.interval],
                                   last.from, last.to),
                        DATAPOINT_LIMITS[last.ret.interval])
       /\ last.ret.count = Len(last.ret.ohlc)

\* C19 holds of the code when no bound of the request is 0
C19_NonZeroBounds ==
    (/\ last.op = "query"
     /\ last.from # IntParam(0)
     /\ last.to # IntParam(0))
    => C19_GetCandles

(***************************************************************************)
(* C20.  Every candle query given both from and to with from > to is       *)
(* rejected with INVALID_RANGE and returns no candles, on every endpoint   *)
(* that serves getCandles; a token that does not normalize is rejected     *)
(* with INVALID_INTERVAL.                                                  *)
(***************************************************************************)
C20_Rejections ==
    last.op = "query" =>
        /\ (/\ Inverted(last.from, last.to)
            /\ mapInterval(last.interval) # NoInterval)
           => last.ret = InvalidRange
        /\ (last.interval # "" /\ mapInterval(last.interval) = NoInterval)
           => /\ last.ret.status = 400
              /\ "ohlc" \notin DOMAIN last.ret

\* the part of C20 that holds of the code: a token that does not normalize
\* is rejected on every endpoint
C20_InvalidInterval ==
    (last.op = "query" /\ last.interval # "" /\ mapInterval(last.interval) = NoInterval)
    => /\ last.ret.status = 400
       /\ "ohlc" \notin DOMAIN last.ret

(***************************************************************************)
(* SpecLife: the life of the service.  init() loads the document and       *)
(* initializes the pools it held, then listens; a request naming a new     *)
(* pool registers it and starts initializePool, which fetches a first      *)
(* price and sets the pool's two timers; the price timer runs updatePrice; *)
(* SIGINT closes the server, whose callback ends the process.              *)
(* initializePool is observed at its two ends: from its first updatePrice  *)
(* to the setInterval of setupEventListenersForPool (the awaits between    *)
(* them touch the chain only), and from the setInterval of the price poll  *)
(* to the finally of parsePoolAddress.                                     *)
(***************************************************************************)
MaxLifeTicks == 2

\* Date.now() as read by the ticks and the requests: the first second of a
\* minute, and five seconds later
LifeTimes == {120, 125}

\* what fetchLatestPrice may return
Fetched == Prices \cup {Null}

\* the pool parameter and the interval parameter of the stats requests
LifeParams == {"", "0xZZ", "0xAA", "0xaa"}
StatsTokens == {"", "2h", "1m", "1h"}

\* the documents found at start: none, one holding a pool that never got a
\* price, one holding a priced pool
LifeDocuments ==
    {NoFile,
     Document(<<[poolAddress |-> "0xaa", poolData |-> createPoolData]>>,
              << >>, "external"),
     Document(<<[poolAddress |-> "0xaa", poolData |-> LoadedScenarioC]>>,
              << >>, "external")}

LifeOp(name, pool, interval, price, now, save, response) ==
    [op |-> name, pool |-> pool, interval |-> interval, price |-> price,
     now |-> now, save |-> save, response |-> response,
     pre |-> poolsData, initializing |-> poolsInitializing,
     running |-> timers, document |-> file,
     n |-> IF name = "updatePrice" THEN last.n + 1 ELSE last.n,
     \* the pools whose latest fetch failed
     failed |-> IF name # "updatePrice" THEN last.failed
                ELSE IF price = Null THEN last.failed \cup {pool}
                ELSE last.failed \ {pool},
     afterFailure |-> name = "updatePrice" /\ pool \in last.failed]

InitLife ==
    /\ poolsData = [p \in Addresses |-> NoPool]
    /\ file \in LifeDocuments
    /\ phase = "boot"
    /\ poolsInitializing = {}
    /\ timers = NoTimers
    /\ clock = 0
    /\ poolCalls = NoCalls
    /\ lastProcessedBlocks = NoBlocks
    /\ scans = << >>
    /\ blockNumber = 0
    /\ volumeHistory = << >>
    /\ last = [op |-> "init", pool |-> "", interval |-> "", price |-> Null,
               now |-> Null, save |-> "none", response |-> [status |-> 0],
               pre |-> poolsData, initializing |-> {}, running |-> NoTimers,
               document |-> file, n |-> 0, failed |-> {},
               afterFailure |-> FALSE]

\* init(): initializeDataFile, before the loaded pools are initialized
LifeLoad ==
    /\ phase = "boot"
    /\ LET r == initializeDataFile(poolsData, volumeHistory, file)
       IN /\ poolsData' = r.pools
          /\ volumeHistory' = r.volumeHistory
          /\ file' = r.file
    /\ phase' = "starting"
    /\ last' = LifeOp("load", "", "", Null, Null, "none", [status |-> 0])
    /\ UNCHANGED tasks

Alive == phase \in {"starting", "running", "closing"}

\* one run of updatePrice(p): the fetch returns a price or fails, the price
\* is folded, and a snapshot is written when due; fs.writeJson may fail
RunUpdatePrice(p, price, now, writeOk) ==
    LET r == updatePrice(poolsData, p, price, now)
        saved == saveDataToFile(r.pools, volumeHistory)
    IN /\ last.n < MaxLifeTicks
       /\ IF r.save
          THEN /\ poolsData' = saved.pools
               /\ file' = IF writeOk THEN saved.dataToSave ELSE file
               /\ last' = LifeOp("updatePrice", p, "", price, now,
                                 IF writeOk THEN "written" ELSE "failed",
                                 [status |-> 0])
          ELSE /\ poolsData' = r.pools
               /\ writeOk
               /\ file' = file
               /\ last' = LifeOp("updatePrice", p, "", price, now, "none",
                                 [status |-> 0])
       /\ UNCHANGED <<phase, volumeHistory, poolsInitializing, clock, poolCalls, eventScan>>

\* initializePool(p), from its start to the setInterval of
\* setupEventListenersForPool
InitializePoolFetch ==
    \E p \in PoolIds, price \in Fetched, now \in LifeTimes, writeOk \in BOOLEAN :
        /\ Alive
        /\ poolsData[p] # NoPool
        /\ p \in poolsInitializing \/ phase = "starting"
        /\ timers[p] = NoTimers[p]
        /\ RunUpdatePrice(p, price, now, writeOk)
        /\ timers' = setInterval(timers, p, "queryPastEvents")

\* initializePool(p), from the setInterval of the price poll to its end,
\* and the finally of parsePoolAddress
InitializePoolDone ==
    \E p \in PoolIds :
        /\ Alive
        /\ timers[p].queryPastEvents > 0
        /\ timers[p].updatePrice = 0
        /\ timers' = setInterval(timers, p, "updatePrice")
        /\ poolsInitializing' = poolsInitializing \ {p}
        /\ last' = LifeOp("initializePool", p, "", Null, Null, "none",
                          [status |-> 0])
        /\ UNCHANGED <<poolsData, file, phase, volumeHistory, clock, poolCalls, eventScan>>

\* init(): app.listen, once every loaded pool has been initialized
Listen ==
    /\ phase = "starting"
    /\ \A p \in PoolIds : poolsData[p] # NoPool => timers[p].updatePrice > 0
    /\ phase' = "running"
    /\ last' = LifeOp("listen", "", "", Null, Null, "none", [status |-> 0])
    /\ UNCHANGED <<poolsData, file, volumeHistory, tasks>>

\* a callback of the price timer of pool p
Tick ==
    \E p \in PoolIds, price \in Fetched, now \in LifeTimes, writeOk \in BOOLEAN :
        /\ Alive
        /\ timers[p].updatePrice > 0
        /\ RunUpdatePrice(p, price, now, writeOk)
        /\ timers' = timers

\* GET /api/stats
GetStats ==
    \E poolAddress \in LifeParams, interval \in StatsTokens, now \in LifeTimes :
        /\ phase = "running"
        /\ LET r == statsEndpoint(poolsData, poolsInitializing, poolAddress,
                                  interval, now)
           IN /\ poolsData' = r.pools
              /\ poolsInitializing' = r.poolsInitializing
              /\ last' = LifeOp("getStats", poolAddress, interval, Null, now,
                                "none", r.response)
        /\ UNCHANGED <<file, phase, volumeHistory, timers, clock, poolCalls, eventScan>>

\* the handler of SIGINT: server.close
Sigint ==
    /\ phase = "running"
    /\ phase' = "closing"
    /\ last' = LifeOp("SIGINT", "", "", Null, Null, "none", [status |-> 0])
    /\ UNCHANGED <<poolsData, file, volumeHistory, tasks>>

\* the callback of server.close: process.exit(0) ends the timers with the
\* process
Exit ==
    /\ phase = "closing"
    /\ phase' = "exited"
    /\ timers' = NoTimers
    /\ last' = LifeOp("exit", "", "", Null, Null, "none", [status |-> 0])
    /\ UNCHANGED <<poolsData, file, volumeHistory, poolsInitializing, clock, poolCalls, eventScan>>

NextLife ==
    \/ LifeLoad \/ InitializePoolFetch \/ InitializePoolDone \/ Listen
    \/ Tick \/ GetStats \/ Sigint \/ Exit

SpecLife == InitLife /\ [][NextLife]_vars

(***************************************************************************)
(* C21.  getStats on a pool that is registered and has no latestPrice yet  *)
(* answers 503 with status initializing or no_data, and never 404; the     *)
(* first stats request naming a new pool reports it as initializing.  The  *)
(* request names an interval of getStats; a request without one is         *)
(* answered by the validation of its parameters.                           *)
(***************************************************************************)
C21_StatsPending ==
    (/\ last.op = "getStats"
     /\ last.pool \in Addresses
     /\ poolsData[toLowerCase(last.pool)].latestPrice = Null) =>
        /\ last.response.status # 404
        /\ last.interval \in statsIntervals =>
              /\ last.response.status = 503
              /\ last.response.state \in {"initializing", "no_data"}
              /\ last.pre[toLowerCase(last.pool)] = NoPool =>
                    last.response.state = "initializing"

\* the first stats request naming a new pool has been answered
C21_Witness ==
    /\ last.op = "getStats"
    /\ last.pool = "0xAA"
    /\ last.interval = "1m"
    /\ last.pre["0xaa"] = NoPool
    /\ last.response.status = 503

\* a stats request has been answered for a loaded pool that never got a
\* price and is not being initialized
C21_NoDataWitness ==
    /\ last.op = "getStats"
    /\ last.interval = "1h"
    /\ last.pre["0xaa"] # NoPool
    /\ "0xaa" \notin poolsInitializing
    /\ last.response.status = 503
    /\ last.response.state = "no_data"

(***************************************************************************)
(* SpecLoad: initializeDataFile on every kind of file init() may find:     *)
(* none, unreadable, of the old format, and documents whose pool entries   *)
(* are series (continuous or not) or are not series at all.                *)
(***************************************************************************)
MaxLoadPools == 2

LoadKeys == {"0xaa", "0xbb", "0xAA"}

LoadEntries ==
    [poolAddress : LoadKeys,
     poolData : {createPoolData, LoadedScenarioC, MalformedPool}]

\* Object.entries(data.pools): the keys of an object are distinct
LoadPools ==
    {entries \in UNION {[1..n -> LoadEntries] : n \in 0..MaxLoadPools} :
        \A i, j \in 1..Len(entries) :
            i # j => entries[i].poolAddress # entries[j].poolAddress}

LoadDocuments ==
    {NoFile, LegacyDocument, UnreadableDocument}
    \cup {Document(entries, DocVolumeHistory, "external") : entries \in LoadPools}

LoadOp(name, document, caught, fixCount) ==
    [op |-> name, document |-> document, caught |-> caught,
     fixCount |-> fixCount]

InitLoad ==
    /\ poolsData = [p \in Addresses |-> NoPool]
    /\ file \in LoadDocuments
    /\ phase = "boot"
    /\ poolsInitializing = {}
    /\ timers = NoTimers
    /\ clock = 0
    /\ poolCalls = NoCalls
    /\ lastProcessedBlocks = NoBlocks
    /\ scans = << >>
    /\ blockNumber = 0
    /\ volumeHistory = << >>
    /\ last = LoadOp("init", NoFile, FALSE, 0)

\* init(): await initializeDataFile()
Load ==
    /\ phase = "boot"
    /\ LET r == initializeDataFile(poolsData, volumeHistory, file)
       IN /\ poolsData' = r.pools
          /\ volumeHistory' = r.volumeHistory
          /\ file' = r.file
          /\ last' = LoadOp("load", file, r.caught, r.fixCount)
    /\ phase' = "running"
    /\ UNCHANGED tasks

NextLoad == Load

SpecLoad == InitLoad /\ [][NextLoad]_vars

EmptyRegistry == \A p \in Addresses : poolsData[p] = NoPool

(***************************************************************************)
(* C22.  Loading a persisted document that has no pools key leaves the     *)
(* registry empty: no PriceSeries, history, candles or volume log is taken *)
(* from the legacy document.                                               *)
(***************************************************************************)
C22_LegacyIsEmpty ==
    (/\ last.op = "load"
     /\ last.document.exists
     /\ "hasPools" \in DOMAIN last.document
     /\ ~last.document.hasPools) =>
        /\ EmptyRegistry
        /\ volumeHistory = << >>

\* a legacy document that holds a volume log has been loaded
C22_Witness ==
    /\ last.op = "load"
    /\ last.document = LegacyDocument
    /\ Len(last.document.volumeHistory) > 0
    /\ file = initialData

(***************************************************************************)
(* C23.  If loading the persisted document fails at any step (unreadable   *)
(* file, or an exception while processing one pool entry), the service     *)
(* boots with an empty registry and empty volume log rather than with a    *)
(* partially loaded or partially repaired state.                           *)
(***************************************************************************)
C23_FailedLoadIsEmpty ==
    (last.op = "load" /\ last.caught) =>
        /\ EmptyRegistry
        /\ volumeHistory = << >>

\* the part of C23 that holds: an unreadable file leaves everything empty
C23_UnreadableIsEmpty ==
    (last.op = "load" /\ last.document = UnreadableDocument) =>
        /\ EmptyRegistry
        /\ volumeHistory = << >>

\* a load has failed on its second pool after repairing the first
C23_PartialRepair ==
    /\ last.op = "load" /\ last.caught
    /\ poolsData["0xaa"] # NoPool
    /\ "ohlc" \in DOMAIN poolsData["0xaa"]
    /\ poolsData["0xaa"].ohlc["1h"] # LoadedScenarioC.ohlc["1h"]
    /\ poolsData["0xbb"] = MalformedPool

(***************************************************************************)
(* C24.  When fetchLatestPrice yields null on a tick, that tick changes no *)
(* field of any PriceSeries (latestPrice, lastUpdated, history, candles,   *)
(* volume) and triggers no save, and the next tick with a successful fetch *)
(* is folded in normally.                                                  *)
(***************************************************************************)
C24_FailedFetchSkips ==
    last.op = "updatePrice" =>
        /\ last.price = Null =>
              /\ poolsData = last.pre
              /\ file = last.document
              /\ last.save = "none"
        /\ (last.price # Null /\ last.afterFailure) =>
              LET folded == foldPrice(last.pre[last.pool], last.price, last.now)
              IN /\ poolsData[last.pool] =
                       IF last.save = "none" THEN folded
                       ELSE validateAndFixOHLCContinuity(folded).poolData
                 /\ poolsData[last.pool].latestPrice = last.price
                 /\ poolsData[last.pool].lastUpdated = last.now
                 /\ last.save # "none" <=> saveDue(last.now)

\* a fetch has failed at a time a save was due on a pool that had a price,
\* and the tick after it has folded its price
C24_Witness ==
    /\ last.op = "updatePrice"
    /\ last.afterFailure
    /\ last.price # Null
    /\ last.pre[last.pool].latestPrice # Null

\* a fetch has failed in the first second of a minute
C24_FailedWhenDue ==
    /\ last.op = "updatePrice"
    /\ last.price = Null
    /\ saveDue(last.now)
    /\ last.pre[last.pool].latestPrice # Null

\* some setInterval timer of some pool is running
TimersRunning ==
    \E p \in Addresses : timers[p].updatePrice > 0 \/ timers[p].queryPastEvents > 0

(***************************************************************************)
(* C26.  Stopping the service (SIGINT) cancels every per-entity timer and  *)
(* attempts one final snapshot save before the process exits.              *)
(***************************************************************************)
C26_Shutdown ==
    last.op = "SIGINT" =>
        /\ ~TimersRunning
        /\ last.save # "none"

\* the part of C26 about the save alone: the handler of SIGINT attempts a
\* snapshot save
C26_FinalSave ==
    last.op = "SIGINT" => last.save # "none"

\* SIGINT has been handled while the timers of a priced pool were running
C26_SigintWithTimers ==
    /\ last.op = "SIGINT"
    /\ timers["0xaa"].updatePrice > 0
    /\ poolsData["0xaa"].latestPrice # Null

\* a price tick has run after SIGINT was handled
C26_TickAfterSigint ==
    /\ phase = "closing"
    /\ last.op = "updatePrice"
    /\ last.n = MaxLifeTicks

C28_MissingWitness ==
    /\ last.op = "getStats"
    /\ last.pool = ""
    /\ last.response.error = "Missing required parameter: pool"

(***************************************************************************)
(* SpecPeriodic: the price timer of one registered pool, for ever.  The    *)
(* callback is due every 5 s from the time setInterval was called, which   *)
(* is at any second of the minute; updatePrice reads Date.now() after the  *)
(* producer has answered, up to MaxLatency later.  Times are kept within   *)
(* the minute, and the series is observed from the latest sample on: each  *)
(* run folds its price into a series that holds nothing older, which       *)
(* keeps the states finite and leaves the timer and the saves as they are. *)
(* Every fetch succeeds, which is the case C25 is about.  The timer is     *)
(* never cleared, so its callback is taken again and again (weak           *)
(* fairness).                                                              *)
(***************************************************************************)
MaxLatency == 1

\* setInterval(() => updatePrice(poolAddress), 5000)
PollPeriod == 5
Minute == 60

PeriodicOp(name, price, now, save) ==
    [op |-> name, price |-> price, now |-> now, save |-> save]

InitPeriodic ==
    /\ poolsData = Only(createPoolData)
    /\ file = initialData
    /\ phase = "running"
    /\ poolsInitializing = {}
    /\ timers = setInterval(NoTimers, ThePool, "updatePrice")
    /\ clock \in 0..(PollPeriod - 1)
    /\ poolCalls = NoCalls
    /\ lastProcessedBlocks = NoBlocks
    /\ scans = << >>
    /\ blockNumber = 0
    /\ volumeHistory = << >>
    /\ last = PeriodicOp("init", Null, Null, "none")

\* a callback of the price timer
PollPrice ==
    \E price \in Prices, latency \in 0..MaxLatency, writeOk \in BOOLEAN :
        LET now == clock + latency
            r == updatePrice(Only(createPoolData), ThePool, price, now)
            saved == saveDataToFile(r.pools, volumeHistory)
        IN /\ timers[ThePool].updatePrice > 0
           /\ IF r.save
              THEN /\ poolsData' = saved.pools
                   /\ file' = IF writeOk THEN saved.dataToSave ELSE file
                   /\ last' = PeriodicOp("updatePrice", price, now,
                                         IF writeOk THEN "written" ELSE "failed")
              ELSE /\ poolsData' = r.pools
                   /\ writeOk
                   /\ file' = file
                   /\ last' = PeriodicOp("updatePrice", price, now, "none")
           /\ clock' = (clock + PollPeriod) % Minute
           /\ UNCHANGED <<phase, volumeHistory, poolsInitializing, timers, poolCalls, eventScan>>

NextPeriodic == PollPrice

SpecPeriodic ==
    InitPeriodic /\ [][NextPeriodic]_vars /\ WF_vars(PollPrice)

(***************************************************************************)
(* C25.  Snapshot saving is periodic: as long as price ticks keep          *)
(* succeeding (one every 5 s per entity, at any phase relative to the      *)
(* minute), a snapshot save is attempted again and again, and a failed     *)
(* save does not prevent the next attempt or abort ingestion.              *)
(***************************************************************************)
C25_PeriodicSave ==
    []<>(last.op = "updatePrice" /\ last.price # Null /\ last.save # "none")

\* the part of C25 that holds: when every tick reads a time that is a
\* multiple of 5 s into the minute, a save is attempted again and again,
\* also after failed saves, and the ticks go on
C25_AlignedSave ==
    [](last.op = "updatePrice" => last.now % PollPeriod = 0)
        => /\ []<>(last.op = "updatePrice" /\ last.save # "none")
           /\ [](last.save = "failed" => <>(last.save = "none"))

\* a save has failed in a run whose ticks read the first second of a minute
C25_FailedSave ==
    /\ last.op = "updatePrice"
    /\ last.save = "failed"
    /\ last.now = Minute

\* the number of datapoints of a response, as testDatapointConsistency
\* reads it: the candles, else the data points, else the count, else 0
datapointCount(response) ==
    IF "ohlc" \in DOMAIN response THEN Len(response.ohlc)
    ELSE IF "dataPoints" \in DOMAIN response THEN Len(response.dataPoints)
    ELSE IF "count" \in DOMAIN response THEN response.count
    ELSE 0

\* the four candle endpoints called for poolAddress and interval, without
\* timestamps, at each of the times in nows; only /api/price/:interval
\* reads the clock
datapointCounts(poolAddress, interval, nows) ==
    LET poolData == getPoolData(poolsData, poolAddress)[toLowerCase(poolAddress)]
    IN {datapointCount(respond(endpoint, poolData, interval,
                               AbsentParam, AbsentParam, QueryNow)) :
            endpoint \in Endpoints \ {"/api/price/:interval"}}
       \cup {datapointCount(respond("/api/price/:interval", poolData, interval,
                                    AbsentParam, AbsentParam, now)) :
                now \in nows}

C27_EmptyWitness ==
    /\ phase = "running"
    /\ poolsData["0xbb"] = NoPool
    /\ datapointCounts("0xbb", "1h", {150}) = {0}

\* update takes the in-place path on the list pre of an interval of width ms
InPlacePath(pre, timestamp, ms) ==
    /\ Len(pre) > 0
    /\ timestamp < pre[Len(pre)].timestamp + ms

(***************************************************************************)
(* C29.  When update takes the in-place path (the sample falls in the      *)
(* current candle's window), it changes only high, low and close of the    *)
(* last candle of that interval: the last candle's open and timestamp, and *)
(* every field of every earlier candle, are unchanged.  The cap of C2      *)
(* still applies after the path: of a list longer than the cap the most    *)
(* recent candles are kept, each as it was; a list within the cap keeps    *)
(* every candle.                                                           *)
(***************************************************************************)
C29_InPlaceFrame ==
    last.op = "update" =>
        \A i \in IntervalSet :
            LET pre == last.pre[i]
                post == poolsData[ThePool].ohlc[i]
            IN InPlacePath(pre, last.ts, intervals[i]) =>
                  /\ Len(post) = Min(Len(pre), DATAPOINT_LIMITS[i])
                  /\ post[Len(post)].timestamp = pre[Len(pre)].timestamp
                  /\ post[Len(post)].open = pre[Len(pre)].open
                  /\ post[Len(post)].high = Max(pre[Len(pre)].high, last.price)
                  /\ post[Len(post)].low = Min(pre[Len(pre)].low, last.price)
                  /\ post[Len(post)].close = last.price
                  /\ \A k \in 1..(Len(post) - 1) :
                        post[Len(post) - k] = pre[Len(pre) - k]

\* an in-place update has changed the close of the last of several candles
\* whose open differs from the sample's price
C29_Witness ==
    /\ last.op = "update"
    /\ \E i \in IntervalSet :
          /\ InPlacePath(last.pre[i], last.ts, intervals[i])
          /\ Len(last.pre[i]) >= 2
          /\ Len(last.pre[i]) <= DATAPOINT_LIMITS[i]
          /\ last.pre[i][Len(last.pre[i])].close # last.price
          /\ last.pre[i][Len(last.pre[i])].open # last.price

\* the least element of a non-empty set of indices
First(S) == CHOOSE k \in S : \A j \in S : k <= j

\* the target buckets that hold at least one candle of source
Buckets(source, ms) ==
    {roundedTimestamp(source[k].timestamp, ms) : k \in 1..Len(source)}

(***************************************************************************)
(* C30.  For any source series, the result of deriveInterval is sorted by  *)
(* strictly increasing timestamp, contains exactly one candle for each     *)
(* target bucket that contains at least one source candle, and each such   *)
(* candle's open is the open of the first source candle encountered in     *)
(* that bucket.                                                            *)
(***************************************************************************)
C30_DerivedShape ==
    last.op = "derive" =>
        \A key \in {"6h", "12h"} :
            LET derived == poolsData[ThePool].ohlc[key]
                ms == intervals[key]
            IN /\ StrictlyIncreasing(derived)
               /\ {derived[k].timestamp : k \in 1..Len(derived)}
                     = Buckets(DeriveSource, ms)
               /\ Len(derived) = Cardinality(Buckets(DeriveSource, ms))
               /\ \A k \in 1..Len(derived) :
                     derived[k].open =
                         DeriveSource[First(InBucket(DeriveSource,
                                                     derived[k].timestamp, ms))].open

\* 6h candles have been derived from a source that is not in timestamp
\* order and whose first bucket holds two candles of different opens
C30_Witness ==
    /\ last.op = "derive"
    /\ Len(DeriveSource) = 3
    /\ DeriveSource[1].timestamp = 21600
    /\ DeriveSource[2].timestamp = 3600
    /\ DeriveSource[3].timestamp = 0
    /\ DeriveSource[2].open # DeriveSource[3].open
    /\ Len(poolsData[ThePool].ohlc["6h"]) = 2
    /\ poolsData[ThePool].ohlc["6h"][1].open = DeriveSource[2].open

(***************************************************************************)
(* Out-of-order samples (SpecAgg).                                         *)
(***************************************************************************)
\* the last update's sample is older than the start of the candle that was
\* last in the interval's list when the call was made
OlderThanLast(interval) ==
    /\ last.op = "update"
    /\ Len(last.pre[interval]) > 0
    /\ last.ts < last.pre[interval][Len(last.pre[interval])].timestamp

(***************************************************************************)
(* C31 as stated.  When update receives a sample whose timestamp is older  *)
(* than the start of the last candle of an interval, it creates a new      *)
(* current candle for that interval anyway, so the interval's timestamps   *)
(* stop being monotonic.                                                   *)
(***************************************************************************)
C31_Original ==
    \A interval \in IntervalSet :
        OlderThanLast(interval) =>
            LET post == poolsData[ThePool].ohlc[interval]
            IN /\ post[Len(post)].timestamp =
                      roundedTimestamp(last.ts, intervals[interval])
               /\ ~StrictlyIncreasing(post)

(***************************************************************************)
(* C31 as amended.  In a series built by update from an empty one, when    *)
(* update receives a sample whose timestamp is older than the start of the *)
(* last candle of an interval, it creates no candle for that interval:     *)
(* the sample is folded into that last candle (high and low widened to the *)
(* price, close set to the price, timestamp and open kept), the earlier    *)
(* candles are untouched, and the interval's timestamps stay strictly      *)
(* increasing.                                                             *)
(***************************************************************************)
C31_OlderSampleCoalesced ==
    \A interval \in IntervalSet :
        OlderThanLast(interval) =>
            LET pre  == last.pre[interval]
                post == poolsData[ThePool].ohlc[interval]
                n    == Len(pre)
            IN /\ Len(post) = n
               /\ \A k \in 1..(n - 1) : post[k] = pre[k]
               /\ post[n].timestamp = pre[n].timestamp
               /\ post[n].open = pre[n].open
               /\ post[n].high = Max(pre[n].high, last.price)
               /\ post[n].low = Min(pre[n].low, last.price)
               /\ post[n].close = last.price
               /\ StrictlyIncreasing(post)

\* a sample at 30 s arrives after the 1m candle of minute 2 was opened at 12
\* and lowers that candle's close to 10
C31_Witness ==
    /\ OlderThanLast("1m")
    /\ last.ts = 30
    /\ last.price = 10
    /\ last.pre["1m"][Len(last.pre["1m"])] =
           [timestamp |-> 120, open |-> 10, high |-> 12, low |-> 12, close |-> 12]
    /\ Len(poolsData[ThePool].ohlc["1m"]) = 2

(***************************************************************************)
(* SpecInit: the calls of initializePool.  init() loads the document and   *)
(* calls initializePool for each key of the registry, awaiting each call   *)
(* before the next, and listens after the last; from then on a request     *)
(* runs parsePoolAddress, which calls initializePool without awaiting it,  *)
(* so that requests are served while calls are in flight.  A call awaits   *)
(* its first updatePrice, then setupEventListenersForPool, which sets the  *)
(* event-scan timer, and then sets the price timer.  The event scan itself *)
(* is followed in SpecScan.                                                *)
(***************************************************************************)
MaxInitTicks == 1

\* the documents found at start: none, one naming a pool in two spellings,
\* one naming two pools; none of the pools has a price
InitDocuments ==
    {NoFile,
     Document(<<[poolAddress |-> "0xAA", poolData |-> createPoolData],
                [poolAddress |-> "0xaa", poolData |-> createPoolData]>>,
              << >>, "external"),
     Document(<<[poolAddress |-> "0xaa", poolData |-> createPoolData],
                [poolAddress |-> "0xbb", poolData |-> createPoolData]>>,
              << >>, "save")}

InitOp(name, pool, price, n) ==
    [op |-> name, pool |-> pool, price |-> price, pre |-> poolsData,
     calls |-> poolCalls, initializing |-> poolsInitializing, n |-> n]

InitInit ==
    /\ poolsData = [p \in Addresses |-> NoPool]
    /\ file \in InitDocuments
    /\ phase = "boot"
    /\ poolsInitializing = {}
    /\ timers = NoTimers
    /\ clock = 0
    /\ poolCalls = NoCalls
    /\ lastProcessedBlocks = NoBlocks
    /\ scans = << >>
    /\ blockNumber = 0
    /\ volumeHistory = << >>
    /\ last = InitOp("init", "", Null, 0)

\* init(): initializeDataFile
InitLoadFile ==
    /\ phase = "boot"
    /\ LET r == initializeDataFile(poolsData, volumeHistory, file)
       IN /\ poolsData' = r.pools
          /\ volumeHistory' = r.volumeHistory
          /\ file' = r.file
    /\ phase' = "starting"
    /\ last' = InitOp("load", "", Null, last.n)
    /\ UNCHANGED tasks

\* init(): the loop over poolsData.entries() calls initializePool for the
\* next key, the call for the key before it having returned
InitLoadedPool ==
    \E poolAddress \in PoolIds :
        /\ phase = "starting"
        /\ poolsData[poolAddress] # NoPool
        /\ poolCalls[poolAddress].started = 0
        /\ callsInFlight(poolCalls) = {}
        /\ poolCalls' = initializePool(poolCalls, poolAddress)
        /\ last' = InitOp("init()", poolAddress, Null, last.n)
        /\ UNCHANGED <<poolsData, file, phase, volumeHistory,
                       poolsInitializing, timers, clock, eventScan>>

\* init(): app.listen, after the loop
InitListen ==
    /\ phase = "starting"
    /\ callsInFlight(poolCalls) = {}
    /\ \A p \in PoolIds : poolsData[p] # NoPool => poolCalls[p].started > 0
    /\ phase' = "running"
    /\ last' = InitOp("listen", "", Null, last.n)
    /\ UNCHANGED <<poolsData, file, volumeHistory, tasks>>

\* a request on a pool route: parsePoolAddress
InitRequest ==
    \E poolAddress \in Addresses :
        /\ phase = "running"
        /\ LET r == parsePoolAddress(poolsData, poolsInitializing, poolAddress)
           IN /\ poolsData' = r.pools
              /\ poolsInitializing' = r.poolsInitializing
              /\ poolCalls' = IF r.initializePool
                              THEN initializePool(poolCalls, poolAddress)
                              ELSE poolCalls
        /\ last' = InitOp("request", poolAddress, Null, last.n)
        /\ UNCHANGED <<file, phase, volumeHistory, timers, clock, eventScan>>

\* one run of updatePrice(p) and of the save it makes when one is due
InitUpdatePrice(name, p, price, now, writeOk, n) ==
    LET r == updatePrice(poolsData, p, price, now)
        saved == saveDataToFile(r.pools, volumeHistory)
    IN /\ IF r.save
          THEN /\ poolsData' = saved.pools
               /\ file' = IF writeOk THEN saved.dataToSave ELSE file
          ELSE /\ poolsData' = r.pools
               /\ writeOk
               /\ file' = file
       /\ last' = InitOp(name, p, price, n)

\* a call of initializePool(p): its updatePrice returns, and
\* setupEventListenersForPool sets the event-scan timer
InitPoolFetched ==
    \E p \in PoolIds, price \in Fetched, now \in LifeTimes, writeOk \in BOOLEAN :
        /\ poolCalls[p].updatePrice > 0
        /\ InitUpdatePrice("fetched", p, price, now, writeOk, last.n)
        /\ poolCalls' = awaitSetup(poolCalls, p)
        /\ timers' = setInterval(timers, p, "queryPastEvents")
        /\ UNCHANGED <<phase, volumeHistory, poolsInitializing, clock, eventScan>>

\* a call of initializePool(p): setupEventListenersForPool returns, the
\* price timer is set, and the finally of parsePoolAddress runs (at start
\* no pool is in poolsInitializing)
InitPoolReady ==
    \E p \in PoolIds :
        /\ poolCalls[p].setupEventListenersForPool > 0
        /\ poolCalls' = endCall(poolCalls, p)
        /\ timers' = setInterval(timers, p, "updatePrice")
        /\ poolsInitializing' = poolsInitializing \ {p}
        /\ last' = InitOp("ready", p, Null, last.n)
        /\ UNCHANGED <<poolsData, file, phase, volumeHistory, clock, eventScan>>

\* what the fetch of a timer tick returns: a price, or it fails
InitTickFetched == {12, Null}

\* a callback of the price timer of pool p
InitTick ==
    \E p \in PoolIds, price \in InitTickFetched, now \in LifeTimes, writeOk \in BOOLEAN :
        /\ timers[p].updatePrice > 0
        /\ last.n < MaxInitTicks
        /\ InitUpdatePrice("tick", p, price, now, writeOk, last.n + 1)
        /\ UNCHANGED <<phase, volumeHistory, tasks>>

NextInit ==
    \/ InitLoadFile \/ InitLoadedPool \/ InitListen \/ InitRequest
    \/ InitPoolFetched \/ InitPoolReady \/ InitTick

SpecInit == InitInit /\ [][NextInit]_vars

(***************************************************************************)
(* C32.  Producer initialization is triggered exactly on the first         *)
(* registry miss: for any interleaving of requests naming the same pool in *)
(* any letter case, and of startup loading of persisted pools,             *)
(* initializePool is started at most once per normalized pool id, so each  *)
(* entity has at most one price-poll timer and at most one event-scan      *)
(* timer.  A request that misses the registry starts the call, a request   *)
(* that finds the pool starts none, and no timer runs under a spelling     *)
(* that is not normalized.                                                 *)
(***************************************************************************)
C32_InitializedOnce ==
    /\ \A p \in PoolIds :
          /\ poolCalls[p].started <= 1
          /\ timers[p].updatePrice <= 1
          /\ timers[p].queryPastEvents <= 1
    /\ \A a \in Addresses \ PoolIds : timers[a] = NoTimers[a]
    /\ last.op = "request" =>
          IF last.pre[toLowerCase(last.pool)] = NoPool
          THEN /\ last.calls[toLowerCase(last.pool)].started = 0
               /\ poolCalls[toLowerCase(last.pool)].started = 1
          ELSE poolCalls = last.calls

\* a request names in capitals a pool whose call of initializePool, started
\* by a request in small letters, is awaiting its first price
C32_Witness ==
    /\ last.op = "request"
    /\ last.pool = "0xAA"
    /\ file = initialData
    /\ last.calls["0xaa"].updatePrice = 1
    /\ "0xaa" \in poolsInitializing
    /\ poolCalls["0xaa"].started = 1

\* a request names in capitals a pool loaded at start, when it has its two
\* timers
C32_LoadedWitness ==
    /\ last.op = "request"
    /\ last.pool = "0xAA"
    /\ file.writer = "external"
    /\ timers["0xaa"] = [updatePrice |-> 1, queryPastEvents |-> 1]

\* a second request after the call has returned and left poolsInitializing
C32_AfterReadyWitness ==
    /\ last.op = "request"
    /\ file = initialData
    /\ last.calls["0xaa"].started = 1
    /\ callsInFlight(last.calls) = {}
    /\ last.initializing = {}
    /\ toLowerCase(last.pool) = "0xaa"

(***************************************************************************)
(* SpecScan: the event scan of one pool.  The chain grows; a run of        *)
(* queryPastEvents, started by the 10 s timer or by                        *)
(* setupEventListenersForPool, reads the head of the chain and the pool's  *)
(* last processed block and then awaits its log queries; when they have    *)
(* returned it adds the volume of every log found and stores the head it   *)
(* had read.  The timer does not wait for a run to end, so that runs       *)
(* overlap when the log queries take longer than the period.  A log query  *)
(* that throws is skipped by the run.  last.added counts, per block, how   *)
(* many times its swap was added to the volume.                            *)
(***************************************************************************)
MaxBlocks == 3
MaxScanRuns == 3
MaxScans == 2

ScanNow == 3000000

ScanOp(name, run, added, n, overlapped) ==
    [op |-> name, run |-> run, added |-> added, n |-> n,
     overlapped |-> overlapped, pre |-> lastProcessedBlocks]

NoRun == [query |-> FALSE]

InitScan ==
    /\ poolsData = Only(createPoolData)
    /\ file = NoFile
    /\ phase = "running"
    /\ poolsInitializing = {}
    /\ timers = setInterval(NoTimers, ThePool, "queryPastEvents")
    /\ clock = 0
    /\ poolCalls = NoCalls
    /\ lastProcessedBlocks = NoBlocks
    /\ scans = << >>
    /\ blockNumber = 1
    /\ volumeHistory = << >>
    /\ last = [op |-> "init", run |-> NoRun,
               added |-> [b \in 1..MaxBlocks |-> 0], n |-> 0,
               overlapped |-> FALSE, pre |-> NoBlocks]

\* the chain gets a block
NewBlock ==
    /\ blockNumber < MaxBlocks
    /\ blockNumber' = blockNumber + 1
    /\ last' = [last EXCEPT !.op = "block", !.run = NoRun,
                            !.pre = lastProcessedBlocks]
    /\ UNCHANGED <<poolsData, file, phase, volumeHistory, poolsInitializing,
                   timers, clock, poolCalls, lastProcessedBlocks, scans>>

\* a run of queryPastEvents(ThePool) from its start to its first getLogs
ScanStart ==
    LET run == scanRange(lastProcessedBlocks, ThePool, blockNumber)
    IN /\ timers[ThePool].queryPastEvents > 0
       /\ last.n < MaxScanRuns
       /\ Len(scans) < MaxScans
       /\ run.query
       /\ scans' = Append(scans, run)
       /\ last' = ScanOp("start", run, last.added, last.n + 1,
                         last.overlapped \/ Len(scans) > 0)
       /\ UNCHANGED <<poolsData, file, phase, volumeHistory, poolsInitializing,
                      timers, clock, poolCalls, lastProcessedBlocks, blockNumber>>

\* a run of queryPastEvents from the return of its last getLogs to its end;
\* found tells whether the log queries returned the logs or threw
ScanEnd ==
    \E i \in 1..Len(scans), found \in BOOLEAN :
        LET run == scans[i]
            blocks == IF found
                      THEN swapBlocks(run.lastProcessedBlock + 1, run.currentBlock)
                      ELSE {}
            registry == IF blocks = {} THEN poolsData
                        ELSE getPoolData(poolsData, run.poolAddress)
            p == toLowerCase(run.poolAddress)
            r == processEvents(registry[p], volumeHistory,
                               Cardinality(blocks), ScanNow)
        IN /\ poolsData' = [registry EXCEPT ![p] = r.poolData]
           /\ volumeHistory' = r.volumeHistory
           /\ lastProcessedBlocks' = storeBlock(lastProcessedBlocks, run)
           /\ scans' = [k \in 1..(Len(scans) - 1) |->
                           IF k < i THEN scans[k] ELSE scans[k + 1]]
           /\ last' = ScanOp("end", run,
                             [b \in 1..MaxBlocks |->
                                 IF b \in blocks THEN last.added[b] + 1
                                 ELSE last.added[b]],
                             last.n, last.overlapped)
           /\ UNCHANGED <<file, phase, poolsInitializing, timers, clock,
                          poolCalls, blockNumber>>

NextScan == NewBlock \/ ScanStart \/ ScanEnd

SpecScan == InitScan /\ [][NextScan]_vars

(***************************************************************************)
(* C33.  The last-processed-block tracking avoids duplicates: under any    *)
(* interleaving of queryPastEvents runs for one pool (a run may still be   *)
(* awaiting log queries when the next 10 s tick starts another), the       *)
(* stored last processed block never decreases and no block's swap events  *)
(* are added to the volume more than once.                                 *)
(***************************************************************************)
C33_NoDuplicates ==
    [][/\ lastProcessedBlocks'[ThePool] >= lastProcessedBlocks[ThePool]
       /\ \A b \in 1..MaxBlocks : last'.added[b] <= 1]_vars

\* what holds of the code: as long as no run was started while another was
\* awaiting its logs, the stored block has not decreased, no block was
\* added twice, and the pool's total is the volume of the blocks added
C33_SequentialRuns ==
    ~last.overlapped =>
        /\ lastProcessedBlocks[ThePool] >= last.pre[ThePool]
        /\ \A b \in 1..MaxBlocks : last.added[b] <= 1
        /\ poolsData[ThePool].volume.total =
               SwapAmount * Cardinality({b \in 1..MaxBlocks : last.added[b] = 1})

\* two runs, one after the other, have each added a block
C33_SequentialWitness ==
    /\ ~last.overlapped
    /\ last.op = "end"
    /\ last.n = 2
    /\ last.added[1] = 1
    /\ last.added[2] = 1

\* two overlapping runs have added the same block
C33_OverlapWitness ==
    /\ last.overlapped
    /\ \E b \in 1..MaxBlocks : last.added[b] = 2

\* the run that started first ended last and stored the older head
C33_DecreaseWitness ==
    /\ last.op = "end"
    /\ lastProcessedBlocks[ThePool] < last.pre[ThePool]

(***************************************************************************)
(* Continuity of the derived series (SpecDerive).                          *)
(***************************************************************************)
\* the list generateIntervalsFromExisting read: the 1h list, or the 5m list
\* when there is no 1h candle
DerivedFrom ==
    IF Len(last.pre["1h"]) > 0 THEN last.pre["1h"] ELSE last.pre["5m"]

\* the lists generateIntervalsFromExisting wrote
DerivedKeys ==
    IF Len(last.pre["1h"]) > 0 THEN {"6h", "12h"} ELSE {"1h", "6h", "12h"}

(***************************************************************************)
(* C34.  If the source candle series is sorted by strictly increasing      *)
(* timestamp and satisfies continuity, the series returned by              *)
(* deriveInterval also satisfies continuity (each derived candle's open    *)
(* equals the previous derived candle's close) without running the repair  *)
(* pass.                                                                   *)
(***************************************************************************)
C34_DerivedContinuity ==
    (/\ last.op = "derive"
     /\ StrictlyIncreasing(DerivedFrom)
     /\ Continuous(DerivedFrom)) =>
        \A key \in DerivedKeys : Continuous(poolsData[ThePool].ohlc[key])

\* a continuous 1h list of three candles whose closes differ from their
\* opens gave two 6h candles, the first made of two 1h candles
C34_Witness ==
    /\ last.op = "derive"
    /\ last.pre["1h"] = <<Candle(0, 10, 12), Candle(3600, 12, 10),
                          Candle(21600, 10, 12)>>
    /\ Len(poolsData[ThePool].ohlc["6h"]) = 2
    /\ poolsData[ThePool].ohlc["6h"][2].open = 10

\* the same from a 5m list, through the 1h list derived from it
C34_FiveMinuteWitness ==
    /\ last.op = "derive"
    /\ last.pre["5m"] = <<Candle(0, 10, 12), Candle(3600, 12, 10),
                          Candle(21600, 10, 12)>>
    /\ Len(poolsData[ThePool].ohlc["1h"]) = 3
    /\ Len(poolsData[ThePool].ohlc["6h"]) = 2

(***************************************************************************)
(* SpecTick: the price ticks of one pool over weeks.  The pool's series    *)
(* was created by a request, or loaded from a document whose 1h list is    *)
(* longer than the limit and was repaired by the load.  Each tick is one   *)
(* run of updatePrice whose fetch succeeded, with the save it makes when   *)
(* due.  The clock is read at any of the times, in any order.              *)
(***************************************************************************)
MaxPruneTicks == 3

\* Date.now(): the start, nearly 7 days later, 8 days later, 20 days later
PruneTickTimes == {0, 600030, 691200, 1728000}

\* the pool's series when the ticks start
TickSeries ==
    {createPoolData, validateAndFixOHLCContinuity(LoadedScenarioC).poolData}

InitPriceTick ==
    /\ poolsData \in {Only(series) : series \in TickSeries}
    /\ file = initialData
    /\ phase = "running"
    /\ poolsInitializing = {}
    /\ timers = setInterval(NoTimers, ThePool, "updatePrice")
    /\ clock = 0
    /\ poolCalls = NoCalls
    /\ lastProcessedBlocks = NoBlocks
    /\ scans = << >>
    /\ blockNumber = 0
    /\ volumeHistory = << >>
    /\ last = Op("init", EmptyOhlc, 0, Null, Null)

\* a callback of the price timer whose fetch returned price
PriceTick ==
    \E price \in Prices, now \in PruneTickTimes, writeOk \in BOOLEAN :
        LET r == updatePrice(poolsData, ThePool, price, now)
            saved == saveDataToFile(r.pools, volumeHistory)
        IN /\ timers[ThePool].updatePrice > 0
           /\ last.n < MaxPruneTicks
           /\ IF r.save
              THEN /\ poolsData' = saved.pools
                   /\ file' = IF writeOk THEN saved.dataToSave ELSE file
              ELSE /\ poolsData' = r.pools
                   /\ writeOk
                   /\ file' = file
           /\ last' = [Op("tick", poolsData[ThePool].ohlc, 0, price, now)
                           EXCEPT !.n = last.n + 1]
           /\ UNCHANGED <<phase, volumeHistory, tasks>>

NextTick == PriceTick

SpecTick == InitPriceTick /\ [][NextTick]_vars

\* the interval's list as updateOHLCData left it in the last tick, before
\* cleanupOldData ran
Updated(interval) ==
    limitCandles(foldSample(last.pre[interval], intervals[interval],
                            last.price, last.ts),
                 DATAPOINT_LIMITS[interval])

C35_LoadedWitness ==
    /\ last.op = "tick"
    /\ last.ts = 691200
    /\ Len(last.pre["1h"]) = 5
    /\ Len(poolsData[ThePool].ohlc["1h"]) = 1

(***************************************************************************)
(* C36.  For non-negative event amounts, in every reachable state each     *)
(* entity's volume fields satisfy 24h <= 7d <= 30d <= total, for any       *)
(* interleaving of volume events of several entities and across a          *)
(* save/load of the snapshot.                                              *)
(***************************************************************************)
C36_VolumeOrder ==
    \A p \in PoolIds :
        poolsData[p] # NoPool =>
            /\ poolsData[p].volume.h24 <= poolsData[p].volume.d7
            /\ poolsData[p].volume.d7 <= poolsData[p].volume.d30
            /\ poolsData[p].volume.d30 <= poolsData[p].volume.total

\* the part that holds of the code: the three windows are sums over one
\* log with nested cutoffs
C36_WindowsNested ==
    \A p \in PoolIds :
        poolsData[p] # NoPool =>
            /\ poolsData[p].volume.h24 <= poolsData[p].volume.d7
            /\ poolsData[p].volume.d7 <= poolsData[p].volume.d30

\* an event of one pool was recorded after an event of the other: the
\* pool's 30d sum holds both amounts, its total its own
C36_SharedLogWitness ==
    /\ last.op = "updateVolume"
    /\ Len(last.events) = 2
    /\ last.events[1].pool # last.events[2].pool
    /\ poolsData[last.pool].volume.d30 =
           last.events[1].volume + last.events[2].volume
    /\ poolsData[last.pool].volume.total = last.events[2].volume

(***************************************************************************)
(* C37.  validateAndRepair is idempotent: for any candle lists, one        *)
(* forward pass restores continuity in every interval, and an immediately  *)
(* following second call returns 0 and changes nothing.                    *)
(***************************************************************************)
C37_RepairIdempotent ==
    /\ last.op = "repair" =>
          \A interval \in IntervalSet :
              Continuous(poolsData[ThePool].ohlc[interval])
    /\ last.op = "repair again" =>
          /\ last.ret = 0
          /\ poolsData[ThePool].ohlc = last.pre

\* the first call repaired four opens in the 1h and 1m lists, and the
\* second call has run
C37_Witness ==
    /\ last.op = "repair again"
    /\ last.first = 4
    /\ Len(poolsData[ThePool].ohlc["1h"]) = 4
    /\ \A k \in 1..4 : poolsData[ThePool].ohlc["1h"][k].close
                           = IF k % 2 = 1 THEN 100 ELSE 105
    /\ Len(poolsData[ThePool].ohlc["1m"]) = 3

(***************************************************************************)
(* SpecRestart: the service over restarts.  init() loads the document;     *)
(* requests register pools; price ticks fold samples and save when due;    *)
(* the Swap listener records volume; the process ends at any moment,       *)
(* losing its memory, and is started again on the document the last        *)
(* successful save left.  last.saved is the registry as it was in memory   *)
(* when that save was taken, after its repair pass.                        *)
(***************************************************************************)
MaxRestartOps == 3
MaxRestarts == 1

NoRegistry == [p \in Addresses |-> NoPool]

\* the documents found at the first start
RestartDocuments ==
    {NoFile,
     Document(<<[poolAddress |-> "0xAA", poolData |-> LoadedScenarioC]>>,
              DocVolumeHistory, "external")}

\* the price every fetch returns, and the clock the swaps are recorded at
RestartPrices == {12}
RestartSwapTimes == {125}

RestartOp(name, ret, saved, n, restarts) ==
    [op |-> name, ret |-> ret, saved |-> saved, n |-> n, restarts |-> restarts]

InitRestart ==
    /\ poolsData = NoRegistry
    /\ file \in RestartDocuments
    /\ phase = "boot"
    /\ poolsInitializing = {}
    /\ timers = NoTimers
    /\ clock = 0
    /\ poolCalls = NoCalls
    /\ lastProcessedBlocks = NoBlocks
    /\ scans = << >>
    /\ blockNumber = 0
    /\ volumeHistory = << >>
    /\ last = RestartOp("init", 0, NoRegistry, 0, 0)

\* init(): initializeDataFile; last.ret is the number of repairs it logged
RestartLoad ==
    /\ phase = "boot"
    /\ LET r == initializeDataFile(poolsData, volumeHistory, file)
       IN /\ poolsData' = r.pools
          /\ volumeHistory' = r.volumeHistory
          /\ file' = r.file
          /\ last' = RestartOp("load", r.fixCount, last.saved, last.n,
                               last.restarts)
    /\ phase' = "running"
    /\ UNCHANGED tasks

\* parsePoolAddress on a request naming a valid address
RestartRequest ==
    \E poolAddress \in RequestAddresses :
        /\ phase = "running"
        /\ poolsData[toLowerCase(poolAddress)] = NoPool
        /\ LET parsed == parsePoolAddress(poolsData, poolsInitializing, poolAddress)
           IN /\ poolsData' = parsed.pools
              /\ poolsInitializing' = parsed.poolsInitializing
        /\ last' = RestartOp("request", 0, last.saved, last.n, last.restarts)
        /\ UNCHANGED <<file, phase, volumeHistory, timers, clock, poolCalls,
                       eventScan>>

\* one run of updatePrice for a registered pool whose fetch succeeded, with
\* the save it makes when due; fs.writeJson may fail
RestartTick ==
    \E p \in PoolIds, price \in RestartPrices, now \in LifeTimes,
       writeOk \in BOOLEAN :
        LET r == updatePrice(poolsData, p, price, now)
            saved == saveDataToFile(r.pools, volumeHistory)
        IN /\ phase = "running"
           /\ poolsData[p] # NoPool
           /\ last.n < MaxRestartOps
           /\ IF r.save
              THEN /\ poolsData' = saved.pools
                   /\ file' = IF writeOk THEN saved.dataToSave ELSE file
                   /\ last' = RestartOp(IF writeOk THEN "save" ELSE "failed save",
                                        saved.fixCount,
                                        IF writeOk THEN saved.pools ELSE last.saved,
                                        last.n + 1, last.restarts)
              ELSE /\ poolsData' = r.pools
                   /\ writeOk
                   /\ file' = file
                   /\ last' = RestartOp("tick", 0, last.saved, last.n + 1,
                                        last.restarts)
           /\ UNCHANGED <<phase, volumeHistory, tasks>>

\* queryPastEvents adds the volume of one swap of a registered pool
RestartSwap ==
    \E p \in PoolIds, now \in RestartSwapTimes :
        /\ phase = "running"
        /\ poolsData[p] # NoPool
        /\ last.n < MaxRestartOps
        /\ LET r == updateVolume(poolsData[p], volumeHistory, SwapAmount, now)
           IN /\ poolsData' = [poolsData EXCEPT ![p] = r.poolData]
              /\ volumeHistory' = r.volumeHistory
        /\ last' = RestartOp("swap", 0, last.saved, last.n + 1, last.restarts)
        /\ UNCHANGED <<file, phase, tasks>>

\* the process ends and is started again: its memory is that of a new
\* process, the document is what it was
Restart ==
    /\ phase = "running"
    /\ last.restarts < MaxRestarts
    /\ poolsData' = NoRegistry
    /\ volumeHistory' = << >>
    /\ poolsInitializing' = {}
    /\ phase' = "boot"
    /\ last' = RestartOp("restart", 0, last.saved, last.n, last.restarts + 1)
    /\ UNCHANGED <<file, timers, clock, poolCalls, eventScan>>

NextRestart ==
    \/ RestartLoad \/ RestartRequest \/ RestartTick \/ RestartSwap \/ Restart

SpecRestart == InitRestart /\ [][NextRestart]_vars

(***************************************************************************)
(* C38.  Snapshot round trip: loading a document written by saveDataToFile *)
(* restores, under each normalized entity id, a PriceSeries equal to the   *)
(* one in memory when the save was taken (latestPrice, lastUpdated,        *)
(* history, candles, volume), and the repair pass run on that load reports *)
(* 0 repairs.  No series is restored under another key.                    *)
(***************************************************************************)
C38_RoundTrip ==
    (last.op = "load" /\ file.writer = "save") =>
        /\ \A p \in PoolIds : poolsData[p] = last.saved[p]
        /\ \A a \in Addresses \ PoolIds : poolsData[a] = NoPool
        /\ last.ret = 0

\* a restart restored two pools from a save taken after the first, loaded
\* from a discontinuous document, had a tick and the second had a swap
C38_Witness ==
    /\ last.op = "load"
    /\ file.writer = "save"
    /\ last.restarts = 1
    /\ poolsData["0xaa"] # NoPool
    /\ Len(poolsData["0xaa"].ohlc["1h"]) >= 3
    /\ Len(poolsData["0xaa"].history) >= 1
    /\ poolsData["0xbb"] # NoPool
    /\ poolsData["0xbb"].volume.total = SwapAmount
    /\ poolsData["0xbb"].latestPrice # Null

\* the memory held more than the document: a pool registered after the
\* save is not restored
C38_LostWitness ==
    /\ last.op = "restart"
    /\ file.writer = "save"
    /\ last.saved["0xbb"] = NoPool
    /\ last.restarts = 1

(***************************************************************************)
(* SpecPending: a pool from its registration to its first price.  The pool *)
(* is found without a price in the document and initialized by init(), or  *)
(* it is registered by the first GET /api/stats that names it, in either   *)
(* spelling.  Every fetch returns a price or fails.  Fairness: init() runs *)
(* on (its steps are taken when they can be); every await of a call of     *)
(* initializePool returns (the producer replies, with a price or with an   *)
(* error); the price timer, once set, keeps firing, and the producer       *)
(* returns a price to one of its fetches in the end.  The process is not   *)
(* stopped.  last.n counts the ticks that folded a price, last.pended      *)
(* tells that a stats request was answered 503.                            *)
(***************************************************************************)
MaxPricedTicks == 1

PendingParams == {"0xAA", "0xaa"}

\* the documents found at start: none, one holding the pool without a price
PendingDocuments ==
    {NoFile,
     Document(<<[poolAddress |-> "0xaa", poolData |-> createPoolData]>>,
              << >>, "save")}

PendingOp(name, price, status, n, pended) ==
    [op |-> name, price |-> price, status |-> status, n |-> n,
     pended |-> pended]

InitPending ==
    /\ poolsData = NoRegistry
    /\ file \in PendingDocuments
    /\ phase = "boot"
    /\ poolsInitializing = {}
    /\ timers = NoTimers
    /\ clock = 0
    /\ poolCalls = NoCalls
    /\ lastProcessedBlocks = NoBlocks
    /\ scans = << >>
    /\ blockNumber = 0
    /\ volumeHistory = << >>
    /\ last = PendingOp("init", Null, 0, 0, FALSE)

\* init(): initializeDataFile
PendingLoad ==
    /\ phase = "boot"
    /\ LET r == initializeDataFile(poolsData, volumeHistory, file)
       IN /\ poolsData' = r.pools
          /\ volumeHistory' = r.volumeHistory
          /\ file' = r.file
    /\ phase' = "starting"
    /\ last' = PendingOp("load", Null, 0, last.n, last.pended)
    /\ UNCHANGED tasks

\* init(): the loop over poolsData.entries() calls initializePool
PendingLoadedPool ==
    /\ phase = "starting"
    /\ poolsData[ThePool] # NoPool
    /\ poolCalls[ThePool].started = 0
    /\ poolCalls' = initializePool(poolCalls, ThePool)
    /\ last' = PendingOp("init()", Null, 0, last.n, last.pended)
    /\ UNCHANGED <<poolsData, file, phase, volumeHistory,
                   poolsInitializing, timers, clock, eventScan>>

\* init(): app.listen, after the loop
PendingListen ==
    /\ phase = "starting"
    /\ callsInFlight(poolCalls) = {}
    /\ poolsData[ThePool] # NoPool => poolCalls[ThePool].started > 0
    /\ phase' = "running"
    /\ last' = PendingOp("listen", Null, 0, last.n, last.pended)
    /\ UNCHANGED <<poolsData, file, volumeHistory, tasks>>

\* GET /api/stats?pool=...&interval=1h
PendingGetStats ==
    \E poolAddress \in PendingParams :
        /\ phase = "running"
        /\ LET r == statsEndpoint(poolsData, poolsInitializing, poolAddress,
                                  "1h", 125)
           IN /\ poolsData' = r.pools
              /\ poolsInitializing' = r.poolsInitializing
              /\ poolCalls' = IF r.initializePool
                              THEN initializePool(poolCalls, poolAddress)
                              ELSE poolCalls
              /\ last' = PendingOp("getStats", Null, r.response.status, last.n,
                                   last.pended \/ r.response.status = 503)
        /\ UNCHANGED <<file, phase, volumeHistory, timers, clock, eventScan>>

\* one run of updatePrice(ThePool) and of the save it makes when one is due
PendingUpdatePrice(name, price, now, writeOk, n) ==
    \E r \in {updatePrice(poolsData, ThePool, price, now)} :
        /\ last' = PendingOp(name, price, 0, n, last.pended)
        /\ IF r.save
           THEN \E saved \in {saveDataToFile(r.pools, volumeHistory)} :
                    /\ poolsData' = saved.pools
                    /\ file' = IF writeOk THEN saved.dataToSave ELSE file
           ELSE /\ poolsData' = r.pools
                /\ writeOk
                /\ file' = file

\* the call of initializePool: its updatePrice returns, and
\* setupEventListenersForPool sets the event-scan timer
PendingFetched ==
    \E price \in Fetched, now \in LifeTimes, writeOk \in BOOLEAN :
        /\ poolCalls[ThePool].updatePrice > 0
        /\ PendingUpdatePrice("fetched", price, now, writeOk, last.n)
        /\ poolCalls' = awaitSetup(poolCalls, ThePool)
        /\ timers' = setInterval(timers, ThePool, "queryPastEvents")
        /\ UNCHANGED <<phase, volumeHistory, poolsInitializing, clock, eventScan>>

\* the call of initializePool: setupEventListenersForPool returns, the
\* price timer is set, and the finally of parsePoolAddress runs
PendingReady ==
    /\ poolCalls[ThePool].setupEventListenersForPool > 0
    /\ poolCalls' = endCall(poolCalls, ThePool)
    /\ timers' = setInterval(timers, ThePool, "updatePrice")
    /\ poolsInitializing' = poolsInitializing \ {ThePool}
    /\ last' = PendingOp("ready", Null, 0, last.n, last.pended)
    /\ UNCHANGED <<poolsData, file, phase, volumeHistory, clock, eventScan>>

\* a callback of the price timer whose fetch returns a price
PricedTick ==
    \E price \in Prices, now \in LifeTimes, writeOk \in BOOLEAN :
        /\ timers[ThePool].updatePrice > 0
        /\ last.n < MaxPricedTicks
        /\ PendingUpdatePrice("tick", price, now, writeOk, last.n + 1)
        /\ UNCHANGED <<phase, volumeHistory, tasks>>

\* a callback of the price timer whose fetch fails
FailedTick ==
    \E now \in LifeTimes :
        /\ timers[ThePool].updatePrice > 0
        /\ PendingUpdatePrice("failed tick", Null, now, TRUE, last.n)
        /\ UNCHANGED <<phase, volumeHistory, tasks>>

NextPending ==
    \/ PendingLoad \/ PendingLoadedPool \/ PendingListen \/ PendingGetStats
    \/ PendingFetched \/ PendingReady \/ PricedTick \/ FailedTick

SpecPending ==
    /\ InitPending /\ [][NextPending]_vars
    /\ WF_vars(PendingLoad) /\ WF_vars(PendingLoadedPool) /\ WF_vars(PendingListen)
    /\ WF_vars(PendingFetched) /\ WF_vars(PendingReady)
    /\ WF_vars(PricedTick)

(***************************************************************************)
(* C39.  A pending entity does not stay pending forever: once a pool is    *)
(* registered, under fair scheduling of its timers and of producer         *)
(* replies, if the producer eventually returns prices then the entity's    *)
(* latestPrice eventually becomes non-null and getStats stops answering    *)
(* with the pending outcome.                                               *)
(***************************************************************************)
C39_PendingEnds ==
    (poolsData[ThePool] # NoPool) ~>
        [](/\ poolsData[ThePool] # NoPool
           /\ poolsData[ThePool].latestPrice # Null
           /\ ~(last.op = "getStats" /\ last.status = 503))

\* the safety half: a price, once folded, stays
C39_PriceStays ==
    [][(poolsData[ThePool] # NoPool /\ poolsData[ThePool].latestPrice # Null)
       => poolsData'[ThePool].latestPrice # Null]_vars

\* a stats request is answered with the pool's price after an earlier one
\* was answered 503, the first fetch having failed
C39_Witness ==
    /\ last.op = "getStats"
    /\ last.status # 503
    /\ last.pended
    /\ last.n = 1
    /\ Len(poolsData[ThePool].history) = 1

\* the pool is registered and pending, with its price timer running
C39_PendingWitness ==
    /\ poolsData[ThePool] # NoPool
    /\ poolsData[ThePool].latestPrice = Null
    /\ timers[ThePool].updatePrice = 1
    /\ last.pended

=============================================================================
